---------------------------- MODULE Spec2Model ----------------------------
(***************************************************************************)
(* A model of parts of the puya compiler:                                  *)
(*   - MIR -> TEAL lowering and the optimizer pipeline (puya/teal/main.py) *)
(*   - the wtype universe and its equality (puya/awst/wtypes.py)           *)
(*   - ARC4 method signatures and argument coercion                        *)
(*     (puyapy/awst_build/eb/arc4/_utils.py)                               *)
(*   - BigUInt operator translation (puya/awst_build/eb/biguint.py)        *)
(*   - ARC4 tuple indexing (puya/awst_build/eb/arc4/tuple.py)              *)
(* Each part has its own specification over the shared variables.          *)
(***************************************************************************)
EXTENDS Integers, Sequences, FiniteSets, TLC

VARIABLES
    pc,                 \* position of the running function
    program_mir,        \* mir_to_teal: the MIR program being lowered
    optimization_level, \* mir_to_teal: context.options.optimization_level
    teal,               \* mir_to_teal: the local variable teal
    before,             \* mir_to_teal: the local variable before
    passes,             \* mir_to_teal: the passes run so far, in order
    call,               \* the function applied, with its inputs and its outcome
    log,                \* messages given to logger.error by the call, in order
    text_documents,     \* language server: workspace.text_documents, their versions
    diagnostics,        \* language server: PuyaPyLanguageServer.diagnostics
    published,          \* language server: the diagnostics the client holds, by uri
    run                 \* language server: the last run of _parse_and_log

\* the language server's part of the state
server == <<text_documents, diagnostics, published, run>>

vars == <<pc, program_mir, optimization_level, teal, before, passes, call, log, server>>

NoProgram == [main |-> <<>>, subroutines |-> <<>>]
NoCall == [fn |-> "none"]

\* the files under the workspace root, by uri
Files == {"a.py", "b.py"}

\* PuyaPyLanguageServer.__init__, no document opened and nothing compiled
ServerInit ==
    /\ text_documents = [uri \in Files |-> <<>>]
    /\ diagnostics = [uri \in {} |-> <<>>]
    /\ published = [uri \in {} |-> <<>>]
    /\ run = [logs |-> <<>>, parse_logs |-> <<>>, awst_logs |-> <<>>,
              transformed |-> <<>>, lowered |-> FALSE]

(***************************************************************************)
(* Bounds of the model.                                                    *)
(***************************************************************************)
MaxBlocks == 3      \* blocks of the main subroutine

(***************************************************************************)
(* Sequence helpers.                                                       *)
(***************************************************************************)
Range(s) == {s[i] : i \in DOMAIN s}

SeqsUpTo(S, n) == UNION {[1..k -> S] : k \in 0..n}

RECURSIVE SumSeq(_)
SumSeq(s) == IF s = <<>> THEN 0 ELSE Head(s) + SumSeq(Tail(s))

RECURSIVE Flatten(_)
Flatten(ss) == IF ss = <<>> THEN <<>> ELSE Head(ss) \o Flatten(Tail(ss))

(***************************************************************************)
(* MIR: ops, blocks, subroutines, programs.                                *)
(* A MIR op is lowered by mir_op.accept(stack) to zero or more TEAL ops.   *)
(***************************************************************************)
MirPush == [kind |-> "push", targets |-> <<>>]
MirPop == [kind |-> "pop", targets |-> <<>>]
MirVirtual == [kind |-> "virtual", targets |-> <<>>]
MirBranch(t) == [kind |-> "branch", targets |-> <<t>>]

\* the net effect of a MIR op on the stack
MirNet(op) ==
    CASE op.kind = "push" -> 1
      [] op.kind = "pop" -> -1
      [] OTHER -> 0

TealOp(code, consumes, produces, sms, targets) ==
    [op_code |-> code, consumes |-> consumes, produces |-> produces,
     stack_manipulations |-> sms, targets |-> targets]

\* mir_op.accept(stack), with Stack(allow_virtual=False): a virtual op
\* leaves no TEAL op, a branch keeps its targets
accept(mir_op) ==
    CASE mir_op.kind = "push" ->
            <<TealOp("pushint", 0, 1, <<"push x">>, <<>>)>>
      [] mir_op.kind = "pop" ->
            <<TealOp("pop", 1, 0, <<"pop x">>, <<>>)>>
      [] mir_op.kind = "virtual" -> <<>>
      [] mir_op.kind = "branch" ->
            <<TealOp("b", 0, 0, <<>>, mir_op.targets)>>

MirBlock(name, entry, ops) ==
    [block_name |-> name,
     entry_stack_height |-> entry,
     exit_stack_height |-> entry + SumSeq([i \in DOMAIN ops |-> MirNet(ops[i])]),
     x_stack_in |-> <<>>,
     ops |-> ops]

MainBlockNames == [i \in 1..(MaxBlocks + 1) |-> <<"m0", "m1", "m2", "m3", "m4">>[i]]
MainSignatureName == "main"
SubSignatureName == "sub"

\* the op lists a block of a subroutine with the given block names may hold
BlockBodies(names) ==
    {<<MirPush>>, <<MirVirtual, MirPop>>} \cup {<<MirBranch(t)>> : t \in names}

\* the entry stack heights of a block that is not a subroutine's first
EntryHeights == {0, 1}

MirBlocksNamed(name, names) ==
    {b \in {MirBlock(name, e, ops) : e \in EntryHeights, ops \in BlockBodies(names)} :
        b.exit_stack_height >= 0}

MirMains ==
    UNION {
        LET names == {MainBlockNames[i] : i \in 1..k}
        IN {[is_main |-> TRUE, signature_name |-> MainSignatureName, blocks |-> bs] :
              bs \in {f \in [1..k -> UNION {MirBlocksNamed(n, names) : n \in names}] :
                        /\ \A i \in 1..k : f[i].block_name = MainBlockNames[i]
                        /\ f[1].entry_stack_height = 0}}
        : k \in 1..MaxBlocks}

MirSubs ==
    {[is_main |-> FALSE, signature_name |-> SubSignatureName,
      blocks |-> <<MirBlock("s0", 0, ops)>>] :
        ops \in {<<MirPush>>, <<MirBranch("s0")>>}}

MirPrograms ==
    {[main |-> m, subroutines |-> ss] :
        m \in MirMains, ss \in {<<>>} \cup {<<s>> : s \in MirSubs}}

OptimizationLevels == {0, 1, 2}

\* the labels collected from the first block alone
ReferencedLabelsOfFirstBlock(subroutine) ==
    UNION {Range(subroutine.blocks[1].ops[o].targets) :
                o \in DOMAIN subroutine.blocks[1].ops}

(***************************************************************************)
(* _get_referenced_labels                                                  *)
(***************************************************************************)
_get_referenced_labels(subroutine) ==
    UNION {UNION {Range(subroutine.blocks[b].ops[o].targets) :
                    o \in DOMAIN subroutine.blocks[b].ops} :
           b \in DOMAIN subroutine.blocks}

(***************************************************************************)
(* _lower_sub                                                              *)
(***************************************************************************)
LowerOps(ops) == Flatten([i \in DOMAIN ops |-> accept(ops[i])])

RECURSIVE LowerBlocks(_, _, _, _)
LowerBlocks(mir_sub, referenced_labels, block_idx, blocks) ==
    IF block_idx > Len(mir_sub.blocks) THEN blocks
    ELSE
        LET mir_block == mir_sub.blocks[block_idx]
            opened ==
                IF block_idx = 1 \/ mir_block.block_name \in referenced_labels
                THEN Append(blocks,
                        [label |-> IF ~(mir_sub.is_main /\ block_idx = 1)
                                   THEN mir_block.block_name
                                   ELSE mir_sub.signature_name,
                         ops |-> <<>>,
                         x_stack |-> mir_block.x_stack_in,
                         entry_stack_height |-> mir_block.entry_stack_height,
                         exit_stack_height |-> -1])
                ELSE blocks
            last_block == opened[Len(opened)]
            updated ==
                [last_block EXCEPT
                    !.exit_stack_height = mir_block.exit_stack_height,
                    !.ops = @ \o LowerOps(mir_block.ops)]
        IN LowerBlocks(mir_sub, referenced_labels, block_idx + 1,
                       [opened EXCEPT ![Len(opened)] = updated])

_lower_sub(mir_sub) ==
    [is_main |-> mir_sub.is_main,
     signature_name |-> mir_sub.signature_name,
     blocks |-> LowerBlocks(mir_sub, _get_referenced_labels(mir_sub), 1, <<>>)]

(***************************************************************************)
(* TealProgram, TealBlock.validate and _build_teal                         *)
(***************************************************************************)
\* TealProgram.all_subroutines: main, then the other subroutines
all_subroutines(program) == <<program.main>> \o program.subroutines

TealNet(op) == op.produces - op.consumes

\* TealBlock.validate: entry height + net stack effect of ops = exit height
validate(teal_block) ==
    teal_block.entry_stack_height
        + SumSeq([i \in DOMAIN teal_block.ops |-> TealNet(teal_block.ops[i])])
    = teal_block.exit_stack_height

\* the subroutines whose blocks _build_teal validates
BuildTealValidatesSubroutinesOnly(program) == program.subroutines

ValidatedSubroutines(program) == all_subroutines(program)

\* [raised, program]: raised when some block's validate() fails
_build_teal(mir_program) ==
    LET program ==
            [main |-> _lower_sub(mir_program.main),
             subroutines |-> [i \in DOMAIN mir_program.subroutines |->
                                _lower_sub(mir_program.subroutines[i])]]
        subs == ValidatedSubroutines(program)
    IN [raised |-> \E s \in DOMAIN subs : \E b \in DOMAIN subs[s].blocks :
                        ~validate(subs[s].blocks[b]),
        program |-> program]

(***************************************************************************)
(* mir_to_teal                                                             *)
(***************************************************************************)
SubStackManipulations(sub) ==
    Flatten([b \in DOMAIN sub.blocks |->
        Flatten([o \in DOMAIN sub.blocks[b].ops |->
            sub.blocks[b].ops[o].stack_manipulations])])

\* [sm for sub in subs for block in sub.blocks for op in block.ops
\*     for sm in op.stack_manipulations]
StackManipulationsOf(subs) ==
    Flatten([s \in DOMAIN subs |-> SubStackManipulations(subs[s])])

\* the list mir_to_teal compares: it is taken over teal.subroutines
CollectedStackManipulations(teal_program) ==
    StackManipulationsOf(teal_program.subroutines)

\* a rewrite that loses the stack manipulations of a subroutine's first op
ClearFirstOp(sub) ==
    IF sub.blocks[1].ops = <<>> THEN sub
    ELSE [sub EXCEPT !.blocks[1].ops[1].stack_manipulations = <<>>]

\* A pass (optimize_teal_program, gather_program_constants, combine_pushes)
\* rewrites the program; its result keeps the stack manipulations, or loses
\* some of main's, or some of another subroutine's.
PassOutcomes(teal_program) ==
    {teal_program,
     [teal_program EXCEPT !.main = ClearFirstOp(@)],
     [teal_program EXCEPT
        !.subroutines = [i \in DOMAIN @ |-> ClearFirstOp(@[i])]]}

TealInit ==
    /\ pc = "start"
    /\ program_mir \in MirPrograms
    /\ optimization_level \in OptimizationLevels
    /\ teal = NoProgram
    /\ before = <<>>
    /\ passes = <<>>
    /\ call = NoCall
    /\ log = <<>>
    /\ ServerInit

\* teal = _build_teal(...); before = [...]
MirToTealBuild ==
    /\ pc = "start"
    /\ LET built == _build_teal(program_mir)
       IN IF built.raised
          THEN /\ pc' = "raised"
               /\ UNCHANGED <<teal, before>>
          ELSE /\ pc' = "optimize"
               /\ teal' = built.program
               /\ before' = CollectedStackManipulations(built.program)
    /\ UNCHANGED <<server, program_mir, optimization_level, passes, call, log>>

\* if optimization_level > 0: teal = optimize_teal_program(context, teal)
MirToTealOptimize ==
    /\ pc = "optimize"
    /\ IF optimization_level > 0
       THEN /\ teal' \in PassOutcomes(teal)
            /\ passes' = Append(passes, "optimize_teal_program")
       ELSE UNCHANGED <<teal, passes>>
    /\ pc' = "gather"
    /\ UNCHANGED <<server, program_mir, optimization_level, before, call, log>>

\* gather_program_constants under the optimization test as well
MirToTealGatherWhenOptimizing ==
    /\ pc = "gather"
    /\ IF optimization_level > 0
       THEN /\ teal' \in PassOutcomes(teal)
            /\ passes' = Append(passes, "gather_program_constants")
       ELSE UNCHANGED <<teal, passes>>
    /\ pc' = "combine"
    /\ UNCHANGED <<server, program_mir, optimization_level, before, call, log>>

\* gather_program_constants(context, teal)
MirToTealGather ==
    /\ pc = "gather"
    /\ teal' \in PassOutcomes(teal)
    /\ passes' = Append(passes, "gather_program_constants")
    /\ pc' = "combine"
    /\ UNCHANGED <<server, program_mir, optimization_level, before, call, log>>

\* if optimization_level > 0: teal = combine_pushes(teal)
MirToTealCombine ==
    /\ pc = "combine"
    /\ IF optimization_level > 0
       THEN /\ teal' \in PassOutcomes(teal)
            /\ passes' = Append(passes, "combine_pushes")
       ELSE UNCHANGED <<teal, passes>>
    /\ pc' = "assert"
    /\ UNCHANGED <<server, program_mir, optimization_level, before, call, log>>

\* after = [...]; assert before == after; return teal
MirToTealAssert ==
    /\ pc = "assert"
    /\ LET after == CollectedStackManipulations(teal)
       IN pc' = IF before = after THEN "returned" ELSE "assertion_failed"
    /\ UNCHANGED <<server, program_mir, optimization_level, teal, before, passes, call, log>>

TealNext ==
    \/ MirToTealBuild
    \/ MirToTealOptimize
    \/ MirToTealGather
    \/ MirToTealCombine
    \/ MirToTealAssert

Spec == TealInit /\ [][TealNext]_vars


(***************************************************************************)
(* Wire types (puya/awst/wtypes.py).  A wtype is a record of its class and *)
(* its attrs fields; a field a class does not have holds a neutral value.  *)
(* An optional value is a sequence of length 0 (None) or 1.                *)
(***************************************************************************)
None == <<>>
Some(v) == <<v>>

WType(name, scalar_type, immutable) ==
    [cls |-> "WType", name |-> name, scalar_type |-> scalar_type,
     ephemeral |-> FALSE, immutable |-> immutable,
     transaction_type |-> None, arc4_name |-> "", decode_type |-> None,
     other_encodeable_types |-> {}, n |-> 0, m |-> 0, types |-> <<>>,
     element_type |-> None, array_size |-> 0, fields |-> <<>>]

void_wtype == WType("void", "none", TRUE)
bool_wtype == WType("bool", "uint64", TRUE)
uint64_wtype == WType("uint64", "uint64", TRUE)
biguint_wtype == WType("biguint", "bytes", TRUE)
bytes_wtype == WType("bytes", "bytes", TRUE)
string_wtype == WType("string", "bytes", TRUE)
asset_wtype == WType("asset", "uint64", TRUE)
account_wtype == WType("account", "bytes", TRUE)
application_wtype == WType("application", "uint64", TRUE)
state_key == WType("state_key", "bytes", TRUE)
box_key == WType("box_key", "bytes", TRUE)

\* constants.TransactionType members used by the model
TransactionTypes == {"pay", "axfer"}

\* the from_type classmethods of the three transaction related classes
TransactionRelatedFromType(cls, base_name, scalar_type, transaction_type) ==
    [WType(IF transaction_type # None
           THEN base_name \o "_" \o transaction_type[1]
           ELSE base_name,
           scalar_type, TRUE)
     EXCEPT !.cls = cls, !.ephemeral = TRUE, !.transaction_type = transaction_type]

WGroupTransaction_from_type(transaction_type) ==
    TransactionRelatedFromType("WGroupTransaction", "group_transaction",
                               "uint64", transaction_type)

WInnerTransactionFields_from_type(transaction_type) ==
    TransactionRelatedFromType("WInnerTransactionFields", "inner_transaction_fields",
                               "none", transaction_type)

WInnerTransaction_from_type(transaction_type) ==
    TransactionRelatedFromType("WInnerTransaction", "inner_transaction",
                               "none", transaction_type)

\* what a constructor gives: a wtype, or the error it raises
Ok(w) == [ok |-> TRUE, value |-> w]
Raise(error, message) == [ok |-> FALSE, error |-> error, message |-> message]

ARC4Classes ==
    {"ARC4Type", "ARC4UIntN", "ARC4UFixedNxM", "ARC4Tuple", "ARC4Array",
     "ARC4DynamicArray", "ARC4StaticArray", "ARC4Struct"}

\* isinstance(wtype, ARC4Type)
IsARC4Type(wtype) == wtype.cls \in ARC4Classes

ARC4Type(cls, name, arc4_name, immutable, decode_type) ==
    [WType(name, "bytes", immutable)
     EXCEPT !.cls = cls, !.arc4_name = arc4_name, !.decode_type = decode_type]

arc4_bool_wtype == ARC4Type("ARC4Type", "arc4.bool", "bool", TRUE, Some(bool_wtype))

RECURSIVE JoinWith(_, _)
JoinWith(strs, sep) ==
    IF strs = <<>> THEN ""
    ELSE IF Len(strs) = 1 THEN strs[1]
    ELSE strs[1] \o sep \o JoinWith(Tail(strs), sep)

\* the constructor without the width check for a uint64 decode type
ARC4UIntNAnyWidthAsUInt64(n, decode_type, alias) ==
    IF ~(n % 8 = 0) THEN Raise("CodeError", "Bit size must be multiple of 8")
    ELSE IF ~(8 <= n /\ n <= 512)
    THEN Raise("CodeError", "Bit size must be between 8 and 512 inclusive")
    ELSE IF decode_type # uint64_wtype /\ decode_type # biguint_wtype
    THEN Raise("InternalError", "TODO")
    ELSE
        LET default_arc4_name == "uint" \o ToString(n)
        IN Ok([ARC4Type("ARC4UIntN", "arc4." \o default_arc4_name,
                        IF alias # None THEN alias[1] ELSE default_arc4_name,
                        TRUE, Some(decode_type))
               EXCEPT !.n = n,
                      !.other_encodeable_types =
                            {bool_wtype, uint64_wtype, biguint_wtype}])

ARC4UIntN(n, decode_type, alias) ==
    IF ~(n % 8 = 0) THEN Raise("CodeError", "Bit size must be multiple of 8")
    ELSE IF ~(8 <= n /\ n <= 512)
    THEN Raise("CodeError", "Bit size must be between 8 and 512 inclusive")
    ELSE IF decode_type = uint64_wtype /\ n > 64 THEN Raise("InternalError", "TODO")
    ELSE IF decode_type # uint64_wtype /\ decode_type # biguint_wtype
    THEN Raise("InternalError", "TODO")
    ELSE
        LET default_arc4_name == "uint" \o ToString(n)
        IN Ok([ARC4Type("ARC4UIntN", "arc4." \o default_arc4_name,
                        IF alias # None THEN alias[1] ELSE default_arc4_name,
                        TRUE, Some(decode_type))
               EXCEPT !.n = n,
                      !.other_encodeable_types =
                            {bool_wtype, uint64_wtype, biguint_wtype}])

WTuple(types) ==
    IF types = <<>> THEN Raise("CodeError", "tuple needs types")
    ELSE IF void_wtype \in Range(types)
    THEN Raise("CodeError", "tuple should not contain void types")
    ELSE Ok([WType("tuple<" \o JoinWith([i \in DOMAIN types |-> types[i].name], ",") \o ">",
                   "none", TRUE)
             EXCEPT !.cls = "WTuple", !.types = types])

ARC4Tuple(types) ==
    IF types = <<>> THEN Raise("CodeError", "ARC4 Tuple cannot be empty")
    ELSE IF \E i \in DOMAIN types : ~IsARC4Type(types[i])
    THEN Raise("CodeError", "Invalid ARC4 Tuple type")
    ELSE
        Ok([ARC4Type("ARC4Tuple",
                     "arc4.tuple<" \o JoinWith([i \in DOMAIN types |-> types[i].name], ",") \o ">",
                     "(" \o JoinWith([i \in DOMAIN types |-> types[i].arc4_name], ",") \o ")",
                     \A i \in DOMAIN types : types[i].immutable,
                     Some(WTuple(types).value))
            EXCEPT !.types = types])

ARC4DynamicArray(element_type, alias, native_type, immutable) ==
    IF ~IsARC4Type(element_type)
    THEN Raise("CodeError", "ARC4 arrays must have ARC4 encoded element type")
    ELSE Ok([ARC4Type("ARC4DynamicArray",
                      "arc4.dynamic_array<" \o element_type.name \o ">",
                      IF alias # None THEN alias[1] ELSE element_type.arc4_name \o "[]",
                      immutable, native_type)
             EXCEPT !.element_type = Some(element_type)])

ARC4StaticArray(element_type, array_size, alias, native_type, immutable) ==
    IF ~IsARC4Type(element_type)
    THEN Raise("CodeError", "ARC4 arrays must have ARC4 encoded element type")
    ELSE IF array_size < 0
    THEN Raise("CodeError", "ARC4 static array size must be non-negative")
    ELSE Ok([ARC4Type("ARC4StaticArray",
                      "arc4.static_array<" \o element_type.name \o ", "
                            \o ToString(array_size) \o ">",
                      IF alias # None THEN alias[1]
                      ELSE element_type.arc4_name \o "[" \o ToString(array_size) \o "]",
                      immutable, native_type)
             EXCEPT !.element_type = Some(element_type), !.array_size = array_size])

\* fields: the mapping as a sequence of <<name, wtype>> with distinct names
WStructType(fields, name, immutable) ==
    IF fields = <<>> THEN Raise("CodeError", "struct needs fields")
    ELSE IF \E i \in DOMAIN fields : fields[i][2] = void_wtype
    THEN Raise("CodeError", "struct should not contain void types")
    ELSE Ok([WType(name, "none", immutable)
             EXCEPT !.cls = "WStructType", !.fields = fields])

WArray(element_type) ==
    IF element_type = void_wtype
    THEN Raise("CodeError", "array element type cannot be void")
    ELSE Ok([WType("array<" \o element_type.name \o ">", "none", FALSE)
             EXCEPT !.cls = "WArray", !.element_type = Some(element_type)])

\* the constructor taking the declared flag as it is
ARC4StructAsDeclared(fields, name, immutable) ==
    IF fields = <<>> THEN Raise("CodeError", "arc4.Struct needs at least one element")
    ELSE IF \E i \in DOMAIN fields : ~IsARC4Type(fields[i][2])
    THEN Raise("CodeError", "Invalid ARC4 Struct declaration")
    ELSE Ok([ARC4Type("ARC4Struct", name,
                      ARC4Tuple([i \in DOMAIN fields |-> fields[i][2]]).value.arc4_name,
                      immutable, None)
             EXCEPT !.fields = fields])

ARC4Struct(fields, name, immutable) ==
    IF fields = <<>> THEN Raise("CodeError", "arc4.Struct needs at least one element")
    ELSE IF \E i \in DOMAIN fields : ~IsARC4Type(fields[i][2])
    THEN Raise("CodeError", "Invalid ARC4 Struct declaration")
    ELSE Ok([ARC4Type("ARC4Struct", name,
                      ARC4Tuple([i \in DOMAIN fields |-> fields[i][2]]).value.arc4_name,
                      immutable /\ \A i \in DOMAIN fields : fields[i][2].immutable,
                      None)
             EXCEPT !.fields = fields])

arc4_byte_alias == ARC4UIntN(8, uint64_wtype, Some("byte")).value
arc4_string_wtype ==
    ARC4DynamicArray(arc4_byte_alias, Some("string"), Some(string_wtype), TRUE).value
arc4_address_wtype ==
    ARC4StaticArray(arc4_byte_alias, 32, Some("address"), Some(account_wtype), TRUE).value

\* The value attrs compares: every field but arc4_name (eq=False), the
\* wtypes held in fields compared the same way; fields is a mapping and
\* compares without regard to order.
RECURSIVE EqFields(_)
EqFields(w) ==
    [cls |-> w.cls, name |-> w.name, scalar_type |-> w.scalar_type,
     ephemeral |-> w.ephemeral, immutable |-> w.immutable,
     transaction_type |-> w.transaction_type,
     decode_type |-> [i \in DOMAIN w.decode_type |-> EqFields(w.decode_type[i])],
     other_encodeable_types |-> {EqFields(t) : t \in w.other_encodeable_types},
     n |-> w.n, m |-> w.m,
     types |-> [i \in DOMAIN w.types |-> EqFields(w.types[i])],
     element_type |-> [i \in DOMAIN w.element_type |-> EqFields(w.element_type[i])],
     array_size |-> w.array_size,
     fields |-> {<<w.fields[i][1], EqFields(w.fields[i][2])>> : i \in DOMAIN w.fields}]

\* a comparison that takes every field, arc4_name too
WTypeEqWithArc4Name(a, b) == a = b

\* WType.__eq__ as attrs generates it
WTypeEq(a, b) == EqFields(a) = EqFields(b)

(***************************************************************************)
(* The wtype constructors applied to bounded arguments.                    *)
(***************************************************************************)
MaxTupleLen == 2    \* items of a tuple type
MaxArraySize == 1   \* size of a static array type

arc4_uint8 == ARC4UIntN(8, uint64_wtype, None).value
arc4_mutable_bytes == ARC4DynamicArray(arc4_byte_alias, None, None, FALSE).value

WellKnownWTypes ==
    {void_wtype, bool_wtype, uint64_wtype, biguint_wtype, bytes_wtype, string_wtype,
     asset_wtype, account_wtype, application_wtype, state_key, box_key,
     arc4_bool_wtype, arc4_byte_alias, arc4_string_wtype, arc4_address_wtype}

UIntBits == {7, 8, 64, 72, 512, 520}
ElementTypes == {arc4_byte_alias, arc4_uint8, uint64_wtype}
ARC4TupleItems == {arc4_bool_wtype, arc4_byte_alias, arc4_mutable_bytes, uint64_wtype}
WTupleItems == {uint64_wtype, void_wtype, arc4_bool_wtype}

WTypeCalls ==
    {[ctor |-> "constant", value |-> w] : w \in WellKnownWTypes}
    \cup {[ctor |-> c, transaction_type |-> t] :
            c \in {"WGroupTransaction.from_type", "WInnerTransactionFields.from_type",
                   "WInnerTransaction.from_type"},
            t \in {None} \cup {Some(k) : k \in TransactionTypes}}
    \cup {[ctor |-> "ARC4UIntN", n |-> n, decode_type |-> d, alias |-> a] :
            n \in UIntBits, d \in {uint64_wtype, biguint_wtype, bytes_wtype},
            a \in {None, Some("byte")}}
    \cup {[ctor |-> "ARC4DynamicArray", element_type |-> e, alias |-> a,
           native_type |-> nt, immutable |-> im] :
            e \in ElementTypes, a \in {None, Some("string")},
            nt \in {None, Some(bytes_wtype), Some(string_wtype)}, im \in BOOLEAN}
    \cup {[ctor |-> "ARC4StaticArray", element_type |-> e, array_size |-> sz,
           alias |-> a, native_type |-> None, immutable |-> im] :
            e \in ElementTypes, sz \in (-1)..MaxArraySize,
            a \in {None, Some("address")}, im \in BOOLEAN}
    \cup {[ctor |-> "ARC4Tuple", types |-> ts] : ts \in SeqsUpTo(ARC4TupleItems, MaxTupleLen)}
    \cup {[ctor |-> "WTuple", types |-> ts] : ts \in SeqsUpTo(WTupleItems, MaxTupleLen)}

ApplyWTypeCall(c) ==
    CASE c.ctor = "constant" -> Ok(c.value)
      [] c.ctor = "WGroupTransaction.from_type" ->
            Ok(WGroupTransaction_from_type(c.transaction_type))
      [] c.ctor = "WInnerTransactionFields.from_type" ->
            Ok(WInnerTransactionFields_from_type(c.transaction_type))
      [] c.ctor = "WInnerTransaction.from_type" ->
            Ok(WInnerTransaction_from_type(c.transaction_type))
      [] c.ctor = "ARC4UIntN" -> ARC4UIntN(c.n, c.decode_type, c.alias)
      [] c.ctor = "ARC4DynamicArray" ->
            ARC4DynamicArray(c.element_type, c.alias, c.native_type, c.immutable)
      [] c.ctor = "ARC4StaticArray" ->
            ARC4StaticArray(c.element_type, c.array_size, c.alias, c.native_type,
                            c.immutable)
      [] c.ctor = "ARC4Tuple" -> ARC4Tuple(c.types)
      [] c.ctor = "WTuple" -> WTuple(c.types)

IdleInit ==
    /\ pc = "idle"
    /\ program_mir = NoProgram
    /\ optimization_level = 0
    /\ teal = NoProgram
    /\ before = <<>>
    /\ passes = <<>>
    /\ call = NoCall
    /\ log = <<>>
    /\ ServerInit

\* two wtypes are constructed and compared with ==
WTypeCompare ==
    /\ pc = "idle"
    /\ \E ca, cb \in WTypeCalls :
        LET a == ApplyWTypeCall(ca)
            b == ApplyWTypeCall(cb)
        IN call' = [fn |-> "wtype_eq", ctor_a |-> ca, ctor_b |-> cb, a |-> a, b |-> b,
                    result |-> IF a.ok /\ b.ok THEN WTypeEq(a.value, b.value)
                               ELSE FALSE]
    /\ pc' = "done"
    /\ UNCHANGED <<server, program_mir, optimization_level, teal, before, passes, log>>

\* component types given to the aggregate constructors
ComponentTypes ==
    {uint64_wtype, void_wtype, asset_wtype, arc4_bool_wtype, arc4_mutable_bytes,
     ARC4Tuple(<<arc4_mutable_bytes>>).value,
     WTuple(<<uint64_wtype, arc4_bool_wtype>>).value}

FieldNames == <<"a", "b", "c", "d">>

AggregateCalls ==
    {[ctor |-> c, fields |-> [i \in DOMAIN ts |-> <<FieldNames[i], ts[i]>>],
      name |-> "S", immutable |-> im] :
        c \in {"WStructType", "ARC4Struct"},
        ts \in SeqsUpTo(ComponentTypes, MaxTupleLen), im \in BOOLEAN}
    \cup {[ctor |-> "WArray", element_type |-> e] : e \in ComponentTypes}
    \cup {[ctor |-> c, types |-> ts] :
            c \in {"WTuple", "ARC4Tuple"}, ts \in SeqsUpTo(ComponentTypes, MaxTupleLen)}
    \cup {[ctor |-> "ARC4DynamicArray", element_type |-> e, alias |-> None,
           native_type |-> None, immutable |-> im] :
            e \in ComponentTypes, im \in BOOLEAN}
    \cup {[ctor |-> "ARC4StaticArray", element_type |-> e, array_size |-> sz,
           alias |-> None, native_type |-> None, immutable |-> im] :
            e \in ComponentTypes, sz \in (-1)..MaxArraySize, im \in BOOLEAN}

ApplyAggregateCall(c) ==
    CASE c.ctor = "WStructType" -> WStructType(c.fields, c.name, c.immutable)
      [] c.ctor = "ARC4Struct" -> ARC4Struct(c.fields, c.name, c.immutable)
      [] c.ctor = "WArray" -> WArray(c.element_type)
      [] OTHER -> ApplyWTypeCall(c)

\* one wtype is constructed
WTypeConstruct ==
    /\ pc = "idle"
    /\ \E c \in WTypeCalls \cup AggregateCalls :
        call' = [fn |-> "construct", ctor |-> c, result |-> ApplyAggregateCall(c)]
    /\ pc' = "done"
    /\ UNCHANGED <<server, program_mir, optimization_level, teal, before, passes, log>>

(***************************************************************************)
(* persistable_stack_type and validate_persistable                         *)
(***************************************************************************)
\* the storage type without the test for ephemeral types
StorageTypeOfEphemeralToo(wtype) ==
    IF wtype.scalar_type = "none"
    THEN [is_error |-> TRUE, error |-> "type is not suitable for storage"]
    ELSE [is_error |-> FALSE, result |-> wtype.scalar_type]

\* returns an error message (a str) or the scalar type (an AVMType, no str)
_storage_type_or_error(wtype) ==
    IF wtype.ephemeral
    THEN [is_error |-> TRUE,
          error |-> "ephemeral types (such as transaction related types) are not suitable for storage"]
    ELSE IF wtype.scalar_type = "none"
    THEN [is_error |-> TRUE, error |-> "type is not suitable for storage"]
    ELSE [is_error |-> FALSE, result |-> wtype.scalar_type]

persistable_stack_type(wtype) ==
    LET r == _storage_type_or_error(wtype)
    IN IF r.is_error THEN [raised |-> TRUE, error |-> "CodeError", message |-> r.error,
                           log |-> <<>>]
       ELSE [raised |-> FALSE, value |-> r.result, log |-> <<>>]

validate_persistable(wtype) ==
    LET r == _storage_type_or_error(wtype)
    IN IF r.is_error THEN [raised |-> FALSE, value |-> FALSE, log |-> <<r.error>>]
       ELSE [raised |-> FALSE, value |-> TRUE, log |-> <<>>]

PersistableStackType ==
    /\ pc = "idle"
    /\ \E c \in WTypeCalls \cup AggregateCalls :
        /\ ApplyAggregateCall(c).ok
        /\ LET wtype == ApplyAggregateCall(c).value
               r == persistable_stack_type(wtype)
           IN /\ call' = [fn |-> "persistable_stack_type", wtype |-> wtype, result |-> r]
              /\ log' = r.log
    /\ pc' = "done"
    /\ UNCHANGED <<server, program_mir, optimization_level, teal, before, passes>>

ValidatePersistable ==
    /\ pc = "idle"
    /\ \E c \in WTypeCalls \cup AggregateCalls :
        /\ ApplyAggregateCall(c).ok
        /\ LET wtype == ApplyAggregateCall(c).value
               r == validate_persistable(wtype)
           IN /\ call' = [fn |-> "validate_persistable", wtype |-> wtype, result |-> r]
              /\ log' = r.log
    /\ pc' = "done"
    /\ UNCHANGED <<server, program_mir, optimization_level, teal, before, passes>>

(***************************************************************************)
(* has_arc4_equivalent_type and avm_to_arc4_equivalent_type                *)
(***************************************************************************)
\* the test without the exclusion of nested tuples
RECURSIVE HasEquivalentNestedTuplesToo(_)
HasEquivalentNestedTuplesToo(wtype) ==
    IF \E w \in {bool_wtype, uint64_wtype, bytes_wtype, biguint_wtype, string_wtype} :
            WTypeEq(wtype, w)
    THEN TRUE
    ELSE IF wtype.cls = "WTuple"
    THEN \A i \in DOMAIN wtype.types :
            HasEquivalentNestedTuplesToo(wtype.types[i]) \/ IsARC4Type(wtype.types[i])
    ELSE FALSE

RECURSIVE has_arc4_equivalent_type(_)
has_arc4_equivalent_type(wtype) ==
    IF \E w \in {bool_wtype, uint64_wtype, bytes_wtype, biguint_wtype, string_wtype} :
            WTypeEq(wtype, w)
    THEN TRUE
    ELSE IF wtype.cls = "WTuple"
    THEN \A i \in DOMAIN wtype.types :
            /\ has_arc4_equivalent_type(wtype.types[i]) \/ IsARC4Type(wtype.types[i])
            /\ wtype.types[i].cls # "WTuple"
    ELSE FALSE

\* the mapping with the ARC4 elements of a tuple mapped like the native ones
RECURSIVE avm_to_arc4_equivalent_type(_)
AvmToArc4MappingEveryElement(wtype) ==
    IF wtype = bool_wtype THEN Ok(arc4_bool_wtype)
    ELSE IF wtype = uint64_wtype THEN ARC4UIntN(64, wtype, None)
    ELSE IF wtype = biguint_wtype THEN ARC4UIntN(512, wtype, None)
    ELSE IF wtype = bytes_wtype
    THEN ARC4DynamicArray(arc4_byte_alias, None, Some(wtype), FALSE)
    ELSE IF wtype = string_wtype THEN Ok(arc4_string_wtype)
    ELSE IF wtype.cls = "WTuple"
    THEN LET types == [i \in DOMAIN wtype.types |->
                            avm_to_arc4_equivalent_type(wtype.types[i])]
         IN IF \E i \in DOMAIN types : ~types[i].ok
            THEN types[CHOOSE i \in DOMAIN types :
                        ~types[i].ok /\ \A k \in 1..(i - 1) : types[k].ok]
            ELSE ARC4Tuple([i \in DOMAIN types |-> types[i].value])
    ELSE Raise("InternalError", "does not have an arc4 equivalent type")

\* the primitive wtypes are module constants, so `is` holds for equal ones
avm_to_arc4_equivalent_type(wtype) ==
    IF wtype = bool_wtype THEN Ok(arc4_bool_wtype)
    ELSE IF wtype = uint64_wtype THEN ARC4UIntN(64, wtype, None)
    ELSE IF wtype = biguint_wtype THEN ARC4UIntN(512, wtype, None)
    ELSE IF wtype = bytes_wtype
    THEN ARC4DynamicArray(arc4_byte_alias, None, Some(wtype), FALSE)
    ELSE IF wtype = string_wtype THEN Ok(arc4_string_wtype)
    ELSE IF wtype.cls = "WTuple"
    THEN LET types == [i \in DOMAIN wtype.types |->
                            IF IsARC4Type(wtype.types[i]) THEN Ok(wtype.types[i])
                            ELSE avm_to_arc4_equivalent_type(wtype.types[i])]
         IN IF \E i \in DOMAIN types : ~types[i].ok
            THEN types[CHOOSE i \in DOMAIN types :
                        ~types[i].ok /\ \A k \in 1..(i - 1) : types[k].ok]
            ELSE ARC4Tuple([i \in DOMAIN types |-> types[i].value])
    ELSE Raise("InternalError", "does not have an arc4 equivalent type")

HasArc4EquivalentType ==
    /\ pc = "idle"
    /\ \E c \in WTypeCalls \cup AggregateCalls :
        /\ ApplyAggregateCall(c).ok
        /\ LET wtype == ApplyAggregateCall(c).value
           IN call' = [fn |-> "has_arc4_equivalent_type", wtype |-> wtype,
                       result |-> has_arc4_equivalent_type(wtype)]
    /\ pc' = "done"
    /\ UNCHANGED <<server, program_mir, optimization_level, teal, before, passes, log>>

AvmToArc4EquivalentType ==
    /\ pc = "idle"
    /\ \E c \in WTypeCalls \cup AggregateCalls :
        /\ ApplyAggregateCall(c).ok
        /\ LET wtype == ApplyAggregateCall(c).value
           IN call' = [fn |-> "avm_to_arc4_equivalent_type", wtype |-> wtype,
                       result |-> avm_to_arc4_equivalent_type(wtype)]
    /\ pc' = "done"
    /\ UNCHANGED <<server, program_mir, optimization_level, teal, before, passes, log>>

(***************************************************************************)
(* valid_base32 and valid_address                                          *)
(***************************************************************************)
\* base64.b32decode(s), casefold=False: [ok, value], ok false where it raises
\* binascii.Error (a ValueError); a str is a sequence of its characters
b32decode(s) ==
    LET alphabet == <<"A", "B", "C", "D", "E", "F", "G", "H", "I", "J", "K", "L", "M",
                      "N", "O", "P", "Q", "R", "S", "T", "U", "V", "W", "X", "Y", "Z",
                      "2", "3", "4", "5", "6", "7">>
        l == Len(s)
        stripped == Cardinality({k \in 1..l : \E i \in k..l : s[i] # "="})
        padchars == l - stripped
        digit(c) == (CHOOSE i \in 1..32 : alphabet[i] = c) - 1
        bit(p) == IF (p - 1) \div 5 + 1 <= stripped
                  THEN (digit(s[(p - 1) \div 5 + 1]) \div 2^(4 - ((p - 1) % 5))) % 2
                  ELSE 0
        quanta == (stripped + 7) \div 8
        leftover == (43 - 5 * padchars) \div 8
        decoded_len == IF padchars > 0 /\ quanta > 0
                       THEN 5 * (quanta - 1) + leftover
                       ELSE 5 * quanta
    IN IF l % 8 # 0 THEN [ok |-> FALSE, value |-> <<>>]
       ELSE IF \E i \in 1..stripped : s[i] \notin Range(alphabet)
       THEN [ok |-> FALSE, value |-> <<>>]
       ELSE IF padchars \notin {0, 1, 3, 4, 6} THEN [ok |-> FALSE, value |-> <<>>]
       ELSE [ok |-> TRUE,
             value |-> [k \in 1..decoded_len |->
                            SumSeq([j \in 1..8 |-> bit(8 * (k - 1) + j) * 2^(8 - j)])]]

valid_base32(s) ==
    LET MAX_BYTES_LENGTH == 4096
        value == b32decode(s)
    IN IF ~value.ok THEN FALSE
       ELSE Len(value.value) <= MAX_BYTES_LENGTH

\* SHA-512/256 of the public keys that the addresses checked here hold
sha512_256_hash(data) ==
    CASE
         data = <<0>> \o [i \in 1..30 |-> 0] \o <<0>> ->
            <<175, 19, 192, 72, 153, 18, 36, 165, 228, 198, 100, 68, 107, 104, 138, 175, 72, 251, 84, 86, 219, 54, 41, 96, 27, 0, 236, 22, 12, 116, 229, 84>>
      [] data = <<0>> \o [i \in 1..30 |-> 0] \o <<1>> ->
            <<22, 155, 241, 37, 45, 140, 225, 75, 97, 114, 134, 245, 249, 218, 139, 17, 68, 196, 230, 192, 255, 20, 237, 109, 204, 246, 38, 18, 84, 57, 193, 128>>
      [] data = <<8>> \o [i \in 1..30 |-> 0] \o <<0>> ->
            <<240, 230, 88, 253, 21, 33, 72, 234, 250, 8, 142, 1, 158, 230, 233, 38, 156, 88, 197, 126, 133, 239, 97, 90, 152, 75, 39, 37, 189, 33, 22, 134>>
      [] data = <<8>> \o [i \in 1..30 |-> 0] \o <<1>> ->
            <<180, 54, 162, 239, 133, 187, 18, 139, 151, 64, 196, 162, 69, 154, 204, 30, 220, 181, 63, 218, 174, 29, 47, 227, 134, 34, 240, 163, 61, 140, 209, 152>>

\* the check sum compared with the first bytes of the hash
ValidAddressChecksumAtHashStart(address) ==
    LET ENCODED_ADDRESS_LENGTH == 58
        PUBLIC_KEY_HASH_LENGTH == 32
        ADDRESS_CHECKSUM_LENGTH == 4
        padded_address == address \o [i \in 1..6 |-> "="]
    IN IF ~(Len(address) = ENCODED_ADDRESS_LENGTH /\ valid_base32(padded_address))
       THEN FALSE
       ELSE LET address_bytes == b32decode(padded_address).value
            IN IF Len(address_bytes) # PUBLIC_KEY_HASH_LENGTH + ADDRESS_CHECKSUM_LENGTH
               THEN FALSE
               ELSE LET public_key_hash == SubSeq(address_bytes, 1, PUBLIC_KEY_HASH_LENGTH)
                        check_sum == SubSeq(address_bytes, PUBLIC_KEY_HASH_LENGTH + 1,
                                            Len(address_bytes))
                        hash == sha512_256_hash(public_key_hash)
                        verified_check_sum == SubSeq(hash, 1, ADDRESS_CHECKSUM_LENGTH)
                    IN check_sum = verified_check_sum

valid_address(address) ==
    LET ENCODED_ADDRESS_LENGTH == 58
        PUBLIC_KEY_HASH_LENGTH == 32
        ADDRESS_CHECKSUM_LENGTH == 4
        padded_address == address \o [i \in 1..6 |-> "="]
    IN IF ~(Len(address) = ENCODED_ADDRESS_LENGTH /\ valid_base32(padded_address))
       THEN FALSE
       ELSE LET address_bytes == b32decode(padded_address).value
            IN IF Len(address_bytes) # PUBLIC_KEY_HASH_LENGTH + ADDRESS_CHECKSUM_LENGTH
               THEN FALSE
               ELSE LET public_key_hash == SubSeq(address_bytes, 1, PUBLIC_KEY_HASH_LENGTH)
                        check_sum == SubSeq(address_bytes, PUBLIC_KEY_HASH_LENGTH + 1,
                                            Len(address_bytes))
                        hash == sha512_256_hash(public_key_hash)
                        verified_check_sum ==
                            SubSeq(hash, Len(hash) - ADDRESS_CHECKSUM_LENGTH + 1, Len(hash))
                    IN check_sum = verified_check_sum

\* the strings checked: four addresses with their check sums, each also with
\* one of its last seven characters replaced, and strings of other lengths
ValidAddress ==
    /\ pc = "idle"
    /\ LET A(n) == [i \in 1..n |-> "A"]
           with_check_sum ==
                {A(51) \o <<"A", "Y", "5", "H", "F", "K", "Q">>,
                 A(51) \o <<"V", "I", "O", "O", "B", "Q", "A">>,
                 <<"B">> \o A(50) \o <<"L", "2", "I", "I", "W", "Q", "Y">>,
                 <<"B">> \o A(50) \o <<"T", "3", "D", "G", "R", "T", "A">>}
           replaced ==
                {[a EXCEPT ![p] = c] :
                    a \in with_check_sum, p \in 52..58,
                    c \in {"A", "B", "Q", "R", "Y", "7", "a", "=", "1", "!"}}
           other_lengths ==
                {<<>>, A(8), A(50), A(57), A(59), A(64), A(66)}
                \cup {SubSeq(a, 1, 57) : a \in with_check_sum}
                \cup {a \o <<"A">> : a \in with_check_sum}
       IN \E address \in with_check_sum \cup replaced \cup other_lengths :
            call' = [fn |-> "valid_address", address |-> address,
                     result |-> valid_address(address)]
    /\ pc' = "done"
    /\ UNCHANGED <<server, program_mir, optimization_level, teal, before, passes, log>>

WTypesNext ==
    \/ WTypeCompare
    \/ WTypeConstruct
    \/ PersistableStackType
    \/ ValidatePersistable
    \/ HasArc4EquivalentType
    \/ AvmToArc4EquivalentType
    \/ ValidAddress

SpecWTypes == IdleInit /\ [][WTypesNext]_vars

(***************************************************************************)
(* ARC4 method signatures (puyapy/awst_build/eb/arc4/_utils.py).           *)
(* A str is a sequence; its elements are the characters "(" and ")", and   *)
(* runs of other characters ("uint64", ","), which the scan steps over.    *)
(***************************************************************************)
MaxSigLen == 6          \* elements of a signature given to _split_signature

SigAlphabet == {"uint64", "(", ")", ","}

\* s[a:b] with 0 <= a and b <= len(s)
Slice(s, a, b) == SubSeq(s, a + 1, b)

ExampleSignatures ==
    {<<"hello", "(", "uint64", ",", "string", ")", "uint64">>,
     <<"(", "a", ")", "b", "(", "c", ")">>,
     <<"f", "(", "a", ")", "(", "b", ")", "c">>,
     <<"f", "(", "a", ")", "(", "b", ")", "(", "c", ")">>,
     <<"f", "(", "(", "a", ",", "b", ")", ",", "c", ")", "(", "d", ",", "e", ")">>,
     <<"9f", "(", ")">>}

Signatures == SeqsUpTo(SigAlphabet, MaxSigLen) \cup ExampleSignatures

\* _VALID_NAME_PATTERN = "^[_A-Za-z][A-Za-z0-9_]*$", on the elements in use
MatchesValidNamePattern(name) ==
    LET NameStart == {"uint64", "hello", "string", "a", "b", "c", "d", "e", "f"}
        NameRest == NameStart \cup {"9f"}
    IN /\ name # <<>>
       /\ name[1] \in NameStart
       /\ \A i \in DOMAIN name : name[i] \in NameRest

\* the loop body with the return tuple taken without its parentheses
SplitSignatureStepInnerReturns(signature, st, idx) ==
    LET tok == signature[idx + 1]
    IN IF tok = "("
       THEN IF st.level + 1 = 1
            THEN [st EXCEPT !.level = @ + 1,
                            !.name = IF @ = <<>> THEN Slice(signature, 0, idx) ELSE @,
                            !.last_idx = idx + 1]
            ELSE [st EXCEPT !.level = @ + 1]
       ELSE IF tok = ")"
       THEN IF st.level - 1 = 0
            THEN [st EXCEPT !.level = @ - 1,
                            !.args = IF @ = None
                                     THEN Some(Slice(signature, st.last_idx, idx))
                                     ELSE @,
                            !.returns = IF st.args # None /\ @ = None
                                        THEN Some(Slice(signature, st.last_idx, idx))
                                        ELSE @,
                            !.last_idx = idx + 1]
            ELSE [st EXCEPT !.level = @ - 1]
       ELSE st

\* the body of the for loop, for one idx
SplitSignatureStep(signature, st, idx) ==
    LET tok == signature[idx + 1]
    IN IF tok = "("
       THEN IF st.level + 1 = 1
            THEN [st EXCEPT !.level = @ + 1,
                            !.name = IF @ = <<>> THEN Slice(signature, 0, idx) ELSE @,
                            !.last_idx = idx + 1]
            ELSE [st EXCEPT !.level = @ + 1]
       ELSE IF tok = ")"
       THEN IF st.level - 1 = 0
            THEN [st EXCEPT !.level = @ - 1,
                            !.args = IF @ = None
                                     THEN Some(Slice(signature, st.last_idx, idx))
                                     ELSE @,
                            !.returns = IF st.args # None /\ @ = None
                                        THEN Some(Slice(signature, st.last_idx - 1, idx + 1))
                                        ELSE @,
                            !.last_idx = idx + 1]
            ELSE [st EXCEPT !.level = @ - 1]
       ELSE st

RECURSIVE SplitSignatureLoop(_, _, _)
SplitSignatureLoop(signature, st, idx) ==
    IF idx >= Len(signature) THEN st
    ELSE SplitSignatureLoop(signature, SplitSignatureStep(signature, st, idx), idx + 1)

Returned(value, logged) == [raised |-> FALSE, value |-> value, log |-> logged]
Raised(error, message, logged) ==
    [raised |-> TRUE, error |-> error, message |-> message, log |-> logged]

\* the name check that ends _split_signature
SplitSignatureReturn(name, args, returns) ==
    Returned([name |-> name, args |-> args, returns |-> returns],
             IF name = <<>> \/ ~MatchesValidNamePattern(name)
             THEN <<"invalid signature: name">> ELSE <<>>)

_split_signature(signature) ==
    LET st == SplitSignatureLoop(signature,
                [level |-> 0, last_idx |-> 0, name |-> <<>>,
                 args |-> None, returns |-> None], 0)
        remaining == Slice(signature, st.last_idx, Len(signature))
    IN IF st.last_idx < Len(signature) /\ remaining # <<>>
       THEN IF st.name = <<>>
            THEN SplitSignatureReturn(remaining, st.args, st.returns)
            ELSE IF st.args = None
            THEN Raised("CodeError", "invalid signature, args not well defined", <<>>)
            ELSE IF st.returns # None /\ st.returns[1] # <<>>
            THEN Raised("CodeError", "invalid signature, text after returns", <<>>)
            ELSE SplitSignatureReturn(st.name, st.args, Some(remaining))
       ELSE SplitSignatureReturn(st.name, st.args, st.returns)

(***************************************************************************)
(* pytypes: the front end's types, each with the wtype it lowers to.       *)
(***************************************************************************)
PyType(name, cls, wtype) ==
    [name |-> name, cls |-> cls, wtype |-> wtype, items |-> <<>>,
     transaction_type |-> None, group |-> FALSE]

\* the types of puyapy.awst_build.pytypes used here
pytypes ==
    [StrLiteralType |->
        PyType("str", "LiteralOnlyType", None),
     BytesLiteralType |->
        PyType("bytes", "LiteralOnlyType", None),
     IntLiteralType |->
        PyType("int", "LiteralOnlyType", None),
     NoneType |->
        PyType("None", "PyType", Some(void_wtype)),
     BoolType |->
        PyType("bool", "PyType", Some(bool_wtype)),
     UInt64Type |->
        PyType("algopy.UInt64", "PyType", Some(uint64_wtype)),
     BigUIntType |->
        PyType("algopy.BigUInt", "PyType", Some(biguint_wtype)),
     BytesType |->
        PyType("algopy.Bytes", "PyType", Some(bytes_wtype)),
     StringType |->
        PyType("algopy.String", "PyType", Some(string_wtype)),
     BoxRefType |->
        PyType("algopy.BoxRef", "PyType", Some(box_key)),
     ARC4BoolType |->
        PyType("algopy.arc4.Bool", "ARC4Type", Some(arc4_bool_wtype)),
     ARC4UInt64Type |->
        PyType("algopy.arc4.UInt64", "ARC4UIntNType", Some(ARC4UIntN(64, uint64_wtype, None).value)),
     ARC4UInt512Type |->
        PyType("algopy.arc4.UInt512", "ARC4UIntNType", Some(ARC4UIntN(512, biguint_wtype, None).value)),
     ARC4StringType |->
        PyType("algopy.arc4.String", "ARC4Type", Some(arc4_string_wtype)),
     ARC4DynamicBytesType |->
        PyType("algopy.arc4.DynamicBytes", "ARC4Type", Some(ARC4DynamicArray(arc4_byte_alias, None, Some(bytes_wtype), FALSE).value))]

\* GenericARC4TupleType.parameterise(items)
ARC4TupleType(items) ==
    [PyType("algopy.arc4.Tuple[" \o JoinWith([i \in DOMAIN items |-> items[i].name], ", ")
                \o "]",
            "TupleType",
            Some(ARC4Tuple([i \in DOMAIN items |-> items[i].wtype[1]]).value))
     EXCEPT !.items = items]

\* isinstance(typ.wtype, ARC4Type)
IsARC4PyType(typ) == typ.wtype # None /\ IsARC4Type(typ.wtype[1])

\* arc4_utils.pytype_to_arc4_pytype(typ, on_error): the ARC4 type of a
\* native type; on_error raises CodeError with the given message
pytype_to_arc4_pytype(typ, on_error_message) ==
    CASE typ = pytypes.BoolType -> Returned(pytypes.ARC4BoolType, <<>>)
      [] typ = pytypes.NoneType \/ typ.group -> Returned(typ, <<>>)
      [] typ = pytypes.UInt64Type -> Returned(pytypes.ARC4UInt64Type, <<>>)
      [] typ = pytypes.BigUIntType -> Returned(pytypes.ARC4UInt512Type, <<>>)
      [] typ = pytypes.BytesType -> Returned(pytypes.ARC4DynamicBytesType, <<>>)
      [] typ = pytypes.StringType -> Returned(pytypes.ARC4StringType, <<>>)
      [] OTHER -> IF IsARC4PyType(typ) THEN Returned(typ, <<>>)
                  ELSE Raised("CodeError", on_error_message, <<>>)

_implicit_arc4_type_conversion(typ) ==
    CASE typ = pytypes.StrLiteralType -> Returned(pytypes.ARC4StringType, <<>>)
      [] typ = pytypes.BytesLiteralType -> Returned(pytypes.ARC4DynamicBytesType, <<>>)
      [] typ = pytypes.IntLiteralType -> Returned(pytypes.ARC4UInt64Type, <<>>)
      [] OTHER -> pytype_to_arc4_pytype(typ, "is not an ARC4 type and no implicit ARC4 conversion possible")

\* the first raise among results evaluated in order, else their values
Sequenced(results) ==
    IF \E i \in DOMAIN results : results[i].raised
    THEN results[CHOOSE i \in DOMAIN results :
                    results[i].raised /\ \A k \in 1..(i - 1) : ~results[k].raised]
    ELSE Returned([i \in DOMAIN results |-> results[i].value], <<>>)

\* the nesting depth before element p of s
NestingBefore(s, p) ==
    Cardinality({i \in 1..(p - 1) : s[i] = "("})
        - Cardinality({i \in 1..(p - 1) : s[i] = ")"})

\* arc4_util.split_tuple_types: the parts between top-level commas
RECURSIVE split_tuple_types(_)
split_tuple_types(s) ==
    LET commas == {p \in DOMAIN s : s[p] = "," /\ NestingBefore(s, p) = 0}
    IN IF commas = {} THEN <<s>>
       ELSE LET p == CHOOSE q \in commas : \A r \in commas : q <= r
            IN <<SubSeq(s, 1, p - 1)>> \o split_tuple_types(SubSeq(s, p + 1, Len(s)))

\* arc4_utils.arc4_to_pytype: the type an ARC4 canonical name denotes
RECURSIVE arc4_to_pytype(_)
arc4_to_pytype(typ) ==
    IF typ = <<"uint64">> THEN Returned(pytypes.ARC4UInt64Type, <<>>)
    ELSE IF typ = <<"string">> THEN Returned(pytypes.ARC4StringType, <<>>)
    ELSE IF typ = <<"bool">> THEN Returned(pytypes.ARC4BoolType, <<>>)
    ELSE IF Len(typ) >= 3 /\ typ[1] = "(" /\ typ[Len(typ)] = ")"
            /\ \A p \in 2..Len(typ) : NestingBefore(typ, p) >= 1
    THEN LET parts == split_tuple_types(SubSeq(typ, 2, Len(typ) - 1))
             items == Sequenced([i \in DOMAIN parts |-> arc4_to_pytype(parts[i])])
         IN IF items.raised THEN items
            ELSE Returned(ARC4TupleType(items.value), <<>>)
    ELSE Raised("CodeError", "unknown ARC4 type", <<>>)

(***************************************************************************)
(* get_arc4_signature                                                      *)
(***************************************************************************)
MaxCallSigLen == 4      \* elements of a signature given to get_arc4_signature
MaxNativeArgs == 1      \* call-site arguments

\* a NodeBuilder: an instance of a type, or (is_instance false) a type
Builder(is_instance, pytype) == [is_instance |-> is_instance, pytype |-> pytype]

NativeArgs ==
    {Builder(TRUE, pytypes.StrLiteralType), Builder(TRUE, pytypes.UInt64Type),
     Builder(TRUE, pytypes.BoxRefType), Builder(FALSE, pytypes.UInt64Type)}

\* expect.instance_builder(na, default=expect.default_raise).pytype
InstanceBuilderPytype(na) ==
    IF na.is_instance THEN Returned(na.pytype, <<>>)
    ELSE Raised("CodeError", "expression is not a value", <<>>)

\* the test that selects inference from the call-site arguments
ArgsMissingOrEmpty(maybe_args) == maybe_args = None \/ maybe_args[1] = <<>>

ArgsMissing(maybe_args) == maybe_args = None

\* ARC4Signature(...): its converters apply _pytype_to_arc4_pytype
ARC4Signature(method_name, arg_types, return_type) ==
    LET converted ==
            Sequenced([i \in 1..(Len(arg_types) + 1) |->
                pytype_to_arc4_pytype(
                    IF i <= Len(arg_types) THEN arg_types[i] ELSE return_type,
                    "invalid return type for an ARC4 method")])
    IN IF converted.raised THEN converted
       ELSE Returned([method_name |-> method_name,
                      arg_types |-> SubSeq(converted.value, 1, Len(arg_types)),
                      return_type |-> converted.value[Len(arg_types) + 1]], <<>>)

\* method: the str literal given as the method selector, or no literal
get_arc4_signature(method, native_args) ==
    IF method = None THEN Raised("CodeError", "method selector must be a simple str literal", <<>>)
    ELSE
    LET method_sig == method[1]
        split == _split_signature(method_sig)
    IN IF split.raised THEN split
       ELSE
       LET maybe_args == split.value.args
           maybe_returns == split.value.returns
           arg_types ==
                IF ArgsMissing(maybe_args)
                THEN Sequenced([i \in DOMAIN native_args |->
                        LET typ == InstanceBuilderPytype(native_args[i])
                        IN IF typ.raised THEN typ
                           ELSE _implicit_arc4_type_conversion(typ.value)])
                ELSE IF maybe_args[1] # <<>>
                THEN LET parts == split_tuple_types(maybe_args[1])
                     IN Sequenced([i \in DOMAIN parts |-> arc4_to_pytype(parts[i])])
                ELSE Returned(<<>>, <<>>)
           return_type ==
                IF maybe_returns # None /\ maybe_returns[1] # <<>>
                THEN arc4_to_pytype(maybe_returns[1])
                ELSE Returned(pytypes.NoneType, <<>>)
       IN IF arg_types.raised THEN [arg_types EXCEPT !.log = split.log]
          ELSE IF return_type.raised THEN [return_type EXCEPT !.log = split.log]
          ELSE LET sig == ARC4Signature(split.value.name, arg_types.value,
                                        return_type.value)
               IN IF sig.raised THEN [sig EXCEPT !.log = split.log]
                  ELSE Returned([method_sig |-> method_sig, signature |-> sig.value],
                                split.log)

CallSignatures == SeqsUpTo(SigAlphabet, MaxCallSigLen) \cup ExampleSignatures
    \cup {<<"f", "(", ")">>, <<"f", "(", ")", "uint64">>,
          <<"f", "(", "uint64", ",", "string", ")">>,
          <<"f", "(", "(", "uint64", ",", "bool", ")", ")", "(", "bool", ",", "string", ")">>}

GetArc4Signature ==
    /\ pc = "idle"
    /\ \E method \in {None} \cup {Some(sig) : sig \in CallSignatures},
          native_args \in SeqsUpTo(NativeArgs, MaxNativeArgs) :
        LET r == get_arc4_signature(method, native_args)
        IN /\ call' = [fn |-> "get_arc4_signature", method |-> method,
                       native_args |-> native_args, result |-> r]
           /\ log' = r.log
    /\ pc' = "done"
    /\ UNCHANGED <<server, program_mir, optimization_level, teal, before, passes>>

SplitSignature ==
    /\ pc = "idle"
    /\ \E signature \in Signatures :
        LET r == _split_signature(signature)
        IN /\ call' = [fn |-> "_split_signature", signature |-> signature, result |-> r]
           /\ log' = r.log
    /\ pc' = "done"
    /\ UNCHANGED <<server, program_mir, optimization_level, teal, before, passes>>

SignatureNext == SplitSignature \/ GetArc4Signature

SpecSignature == IdleInit /\ [][SignatureNext]_vars

(***************************************************************************)
(* Argument coercion: _implicit_arc4_conversion                            *)
(***************************************************************************)
\* pytypes.GroupTransactionTypes, InnerTransactionFieldsetTypes and
\* InnerTransactionResultTypes, keyed by transaction type (None: any)
TransactionRelatedType(family, transaction_type) ==
    [PyType("algopy." \o family
                \o (IF transaction_type = None THEN "" ELSE "." \o transaction_type[1]),
            "TransactionRelatedType",
            Some(CASE family = "GroupTransaction" ->
                        WGroupTransaction_from_type(transaction_type)
                   [] family = "InnerTransactionFieldset" ->
                        WInnerTransactionFields_from_type(transaction_type)
                   [] family = "InnerTransactionResult" ->
                        WInnerTransaction_from_type(transaction_type)))
     EXCEPT !.transaction_type = transaction_type,
            !.group = (family = "GroupTransaction")]

\* the match without the any-kind cases
InnerTransactionTypeMatchesExactly(instance, target) ==
    /\ instance.wtype[1].cls = "WInnerTransactionFields"
    /\ target.wtype[1].cls = "WInnerTransactionFields"
    /\ WTypeEq(instance.wtype[1], target.wtype[1])

_inner_transaction_type_matches(instance, target) ==
    IF instance.wtype[1].cls # "WInnerTransactionFields" THEN FALSE
    ELSE IF target.wtype[1].cls # "WInnerTransactionFields" THEN FALSE
    ELSE \/ WTypeEq(instance.wtype[1], target.wtype[1])
         \/ instance.wtype[1].transaction_type = None
         \/ target.wtype[1].transaction_type = None

\* ARC4Type.can_encode_type: wtype is one of the encodeable types
can_encode_type(target_wtype, wtype) ==
    \/ target_wtype.decode_type # None /\ WTypeEq(target_wtype.decode_type[1], wtype)
    \/ \E t \in target_wtype.other_encodeable_types : WTypeEq(t, wtype)

\* the conversion with the encodability test ahead of the ARC-4 test
ImplicitConversionEncodabilityFirst(operand, target_type) ==
    LET instance == IF operand.is_instance
                    THEN [from |-> "operand", pytype |-> operand.pytype]
                    ELSE [from |-> "dummy_value", pytype |-> target_type]
        logged == IF operand.is_instance THEN <<>> ELSE <<"expression is not a value">>
        dummy == [from |-> "dummy_value", pytype |-> target_type]
    IN IF instance.pytype = target_type THEN Returned(instance, logged)
       ELSE IF target_type.cls = "TransactionRelatedType"
       THEN IF _inner_transaction_type_matches(instance.pytype, target_type)
            THEN Returned(instance, logged)
            ELSE Returned(dummy, logged \o <<"expected type">>)
       ELSE IF ~IsARC4Type(target_type.wtype[1])
       THEN Raised("InternalError",
                   "implicit_operand_conversion expected target_type to be an ARC-4 type",
                   logged)
       ELSE IF ~can_encode_type(target_type.wtype[1], instance.pytype.wtype[1])
       THEN Returned(dummy, logged \o <<"cannot encode">>)
       ELSE IF IsARC4Type(instance.pytype.wtype[1])
       THEN Returned(dummy, logged \o <<"expected type">>)
       ELSE Returned([from |-> "type_builder_call", pytype |-> target_type], logged)

\* the operand is a builder of a non-literal type, so resolving literals
\* leaves it as it is; the result tells where the returned builder came from
_implicit_arc4_conversion(operand, target_type) ==
    LET instance == IF operand.is_instance
                    THEN [from |-> "operand", pytype |-> operand.pytype]
                    ELSE [from |-> "dummy_value", pytype |-> target_type]
        logged == IF operand.is_instance THEN <<>> ELSE <<"expression is not a value">>
        dummy == [from |-> "dummy_value", pytype |-> target_type]
    IN IF instance.pytype = target_type THEN Returned(instance, logged)
       ELSE IF target_type.cls = "TransactionRelatedType"
       THEN IF _inner_transaction_type_matches(instance.pytype, target_type)
            THEN Returned(instance, logged)
            ELSE Returned(dummy, logged \o <<"expected type">>)
       ELSE IF ~IsARC4Type(target_type.wtype[1])
       THEN Raised("InternalError",
                   "implicit_operand_conversion expected target_type to be an ARC-4 type",
                   logged)
       ELSE IF IsARC4Type(instance.pytype.wtype[1])
       THEN Returned(dummy, logged \o <<"expected type">>)
       ELSE IF ~can_encode_type(target_type.wtype[1], instance.pytype.wtype[1])
       THEN Returned(dummy, logged \o <<"cannot encode">>)
       ELSE Returned([from |-> "type_builder_call", pytype |-> target_type], logged)

ConversionTargets ==
    {TransactionRelatedType(family, transaction_type) :
        family \in {"GroupTransaction", "InnerTransactionFieldset",
                    "InnerTransactionResult"},
        transaction_type \in {None} \cup {Some(t) : t \in TransactionTypes}}
    \cup {pytypes.ARC4UInt64Type, pytypes.ARC4StringType, pytypes.ARC4BoolType,
          pytypes.ARC4DynamicBytesType, pytypes.UInt64Type}

ConversionOperands ==
    {Builder(TRUE, typ) : typ \in ConversionTargets \cup
                            {pytypes.BytesType, pytypes.StringType, pytypes.BoolType}}
    \cup {Builder(FALSE, pytypes.UInt64Type)}

ImplicitArc4Conversion ==
    /\ pc = "idle"
    /\ \E operand \in ConversionOperands, target_type \in ConversionTargets :
        LET r == _implicit_arc4_conversion(operand, target_type)
        IN /\ call' = [fn |-> "_implicit_arc4_conversion", operand |-> operand,
                       target_type |-> target_type, result |-> r]
           /\ log' = r.log
    /\ pc' = "done"
    /\ UNCHANGED <<server, program_mir, optimization_level, teal, before, passes>>

(***************************************************************************)
(* BigUIntExpressionBuilder: binary_op and augmented_assignment            *)
(***************************************************************************)
\* interface.BuilderBinaryOp: member name |-> value
BuilderBinaryOp ==
    [add |-> "+", sub |-> "-", mult |-> "*", div |-> "/", floor_div |-> "//",
     mod |-> "%", pow |-> "**", mat_mult |-> "@", lshift |-> "<<", rshift |-> ">>",
     bit_or |-> "|", bit_xor |-> "^", bit_and |-> "&"]

\* the values of awst.nodes.BigUIntBinaryOperator
BigUIntBinaryOperator == {"+", "-", "*", "//", "%", "|", "^", "&"}

\* the translation without the replacement of div by floor_div
TranslateWithoutFloorDiv(operator) ==
    LET logged == IF operator = "div"
                  THEN <<"only the truncating division operator (//) is supported">>
                  ELSE <<>>
    IN IF BuilderBinaryOp[operator] \in BigUIntBinaryOperator
       THEN Returned(BuilderBinaryOp[operator], logged)
       ELSE Raised("CodeError", "Unsupported BigUInt math operator", logged)

_translate_biguint_math_operator(operator) ==
    LET logged == IF operator = "div"
                  THEN <<"only the truncating division operator (//) is supported">>
                  ELSE <<>>
        operator_ == IF operator = "div" THEN "floor_div" ELSE operator
    IN IF BuilderBinaryOp[operator_] \in BigUIntBinaryOperator
       THEN Returned(BuilderBinaryOp[operator_], logged)
       ELSE Raised("CodeError", "Unsupported BigUInt math operator", logged)

\* the other operand as a biguint expression: an int literal resolved by
\* BigUIntTypeBuilder, a biguint as it is, a uint64 through itob; else None
BigUIntOperandExpr(other) ==
    IF other.pytype = pytypes.IntLiteralType THEN Some("BigUIntConstant")
    ELSE IF other.pytype = pytypes.BigUIntType THEN Some("BigUIntExpression")
    ELSE IF other.pytype = pytypes.UInt64Type THEN Some("itob_as(UInt64Expression)")
    ELSE None

\* the operation built without the swap for reverse
BinaryOpNeverSwapped(other, op, reverse) ==
    LET other_expr == BigUIntOperandExpr(other)
        biguint_op == _translate_biguint_math_operator(op)
    IN IF other_expr = None THEN Returned([node |-> "NotImplemented"], <<>>)
       ELSE IF biguint_op.raised THEN biguint_op
       ELSE Returned([node |-> "BigUIntBinaryOperation",
                      left |-> "self",
                      op |-> biguint_op.value,
                      right |-> other_expr[1]],
                     biguint_op.log)

binary_op(other, op, reverse) ==
    LET other_expr == BigUIntOperandExpr(other)
        biguint_op == _translate_biguint_math_operator(op)
    IN IF other_expr = None THEN Returned([node |-> "NotImplemented"], <<>>)
       ELSE IF biguint_op.raised THEN biguint_op
       ELSE Returned([node |-> "BigUIntBinaryOperation",
                      left |-> IF reverse THEN other_expr[1] ELSE "self",
                      op |-> biguint_op.value,
                      right |-> IF reverse THEN "self" ELSE other_expr[1]],
                     biguint_op.log)

\* is_lvalue: self.resolve_lvalue() gives a target (it raises CodeError otherwise)
augmented_assignment(is_lvalue, op, rhs) ==
    LET value == BigUIntOperandExpr(rhs)
        biguint_op == _translate_biguint_math_operator(op)
    IN IF value = None THEN Raised("CodeError", "Invalid operand type", <<>>)
       ELSE IF ~is_lvalue
       THEN Raised("CodeError", "expression is not valid as an assignment target", <<>>)
       ELSE IF biguint_op.raised THEN biguint_op
       ELSE Returned([node |-> "BigUIntAugmentedAssignment", target |-> "self",
                      value |-> value[1], op |-> biguint_op.value],
                     biguint_op.log)

BigUIntOperands ==
    {Builder(TRUE, typ) : typ \in {pytypes.IntLiteralType, pytypes.BigUIntType,
                                   pytypes.UInt64Type, pytypes.BytesType,
                                   pytypes.BoolType}}

BinaryOp ==
    /\ pc = "idle"
    /\ \E other \in BigUIntOperands, op \in DOMAIN BuilderBinaryOp, reverse \in BOOLEAN :
        LET r == binary_op(other, op, reverse)
        IN /\ call' = [fn |-> "binary_op", other |-> other, op |-> op,
                       reverse |-> reverse, result |-> r]
           /\ log' = r.log
    /\ pc' = "done"
    /\ UNCHANGED <<server, program_mir, optimization_level, teal, before, passes>>

AugmentedAssignment ==
    /\ pc = "idle"
    /\ \E rhs \in BigUIntOperands, op \in DOMAIN BuilderBinaryOp, is_lvalue \in BOOLEAN :
        LET r == augmented_assignment(is_lvalue, op, rhs)
        IN /\ call' = [fn |-> "augmented_assignment", is_lvalue |-> is_lvalue,
                       op |-> op, rhs |-> rhs, result |-> r]
           /\ log' = r.log
    /\ pc' = "done"
    /\ UNCHANGED <<server, program_mir, optimization_level, teal, before, passes>>

(***************************************************************************)
(* ARC4TupleExpressionBuilder.index                                        *)
(***************************************************************************)
\* indexing that takes the last item for an index past the end
IndexWithoutBoundsCheck(self_pytype, idx) ==
    IF ~(idx.literal /\ idx.pytype = pytypes.IntLiteralType)
    THEN Raised("CodeError", "arc4.Tuple can only be indexed by int constants", <<>>)
    ELSE LET n == Len(self_pytype.items)
             index_value == idx.value
             i == IF index_value >= n THEN n - 1 ELSE index_value
         IN Returned([pytype |-> self_pytype.items[(i % n) + 1],
                      expr |-> [node |-> "TupleItemExpression", base |-> "self",
                                index |-> index_value]], <<>>)

\* indexing that emits a negative index counted from the start
IndexNormalisingNegative(self_pytype, idx) ==
    IF ~(idx.literal /\ idx.pytype = pytypes.IntLiteralType)
    THEN Raised("CodeError", "arc4.Tuple can only be indexed by int constants", <<>>)
    ELSE LET n == Len(self_pytype.items)
             index_value == IF idx.value < 0 THEN n + idx.value ELSE idx.value
         IN IF index_value >= n \/ index_value < 0
            THEN Raised("CodeError", "Tuple index out of bounds", <<>>)
            ELSE Returned([pytype |-> self_pytype.items[index_value + 1],
                           expr |-> [node |-> "TupleItemExpression", base |-> "self",
                                     index |-> index_value]], <<>>)

\* items[index_value] is Python list indexing: -n..-1 count from the end
index(self_pytype, idx) ==
    IF ~(idx.literal /\ idx.pytype = pytypes.IntLiteralType)
    THEN Raised("CodeError", "arc4.Tuple can only be indexed by int constants", <<>>)
    ELSE LET n == Len(self_pytype.items)
             index_value == idx.value
         IN IF index_value >= n \/ index_value < -n
            THEN Raised("CodeError", "Tuple index out of bounds", <<>>)
            ELSE Returned([pytype |-> self_pytype.items[
                                IF index_value >= 0 THEN index_value + 1
                                ELSE n + index_value + 1],
                           expr |-> [node |-> "TupleItemExpression", base |-> "self",
                                     index |-> index_value]], <<>>)

\* the builders given as index: int literals around the tuple's range, a
\* str literal, and a uint64 expression (value: its literal value, if any)
IndexBuilders ==
    {[literal |-> TRUE, pytype |-> pytypes.IntLiteralType, value |-> v] :
        v \in (0 - MaxTupleLen - 1)..(MaxTupleLen + 1)}
    \cup {[literal |-> TRUE, pytype |-> pytypes.StrLiteralType, value |-> 0],
          [literal |-> FALSE, pytype |-> pytypes.UInt64Type, value |-> 0]}

IndexedTupleTypes ==
    {ARC4TupleType(items) :
        items \in SeqsUpTo({pytypes.ARC4UInt64Type, pytypes.ARC4StringType,
                            pytypes.ARC4BoolType}, MaxTupleLen) \ {<<>>}}

TupleIndex ==
    /\ pc = "idle"
    /\ \E self_pytype \in IndexedTupleTypes, idx \in IndexBuilders :
        LET r == index(self_pytype, idx)
        IN /\ call' = [fn |-> "index", self_pytype |-> self_pytype, index |-> idx,
                       result |-> r]
           /\ log' = r.log
    /\ pc' = "done"
    /\ UNCHANGED <<server, program_mir, optimization_level, teal, before, passes>>

(***************************************************************************)
(* ARC4Signature.convert_args                                              *)
(***************************************************************************)
MaxAbiArgs == 2     \* declared argument types, and call-site arguments

_gtxn_to_itxn(pytype) ==
    IF pytype.cls = "TransactionRelatedType" /\ pytype.group
    THEN TransactionRelatedType("InnerTransactionFieldset", pytype.transaction_type)
    ELSE pytype

\* the arguments paired with zip(strict=True), which raises on unequal counts
ConvertArgsZipStrict(self_arg_types, native_args, expect_itxn_args) ==
    LET num_args == Len(native_args)
        num_sig_args == Len(self_arg_types)
        logged ==
            IF num_sig_args # num_args
            THEN <<"expected " \o ToString(num_sig_args) \o " ABI argument"
                        \o (IF num_sig_args = 1 THEN "" ELSE "s")
                        \o ", got " \o ToString(num_args)>>
            ELSE <<>>
        arg_types == IF expect_itxn_args
                     THEN [i \in DOMAIN self_arg_types |-> _gtxn_to_itxn(self_arg_types[i])]
                     ELSE self_arg_types
        arc4_args == [i \in 1..num_args |->
                        _implicit_arc4_conversion(native_args[i], arg_types[i])]
    IN IF num_sig_args # num_args
       THEN Raised("ValueError", "zip() arguments have different lengths", logged)
       ELSE IF \E i \in DOMAIN arc4_args : arc4_args[i].raised
       THEN Sequenced(arc4_args)
       ELSE Returned([i \in DOMAIN arc4_args |-> arc4_args[i].value],
                     logged \o Flatten([i \in DOMAIN arc4_args |-> arc4_args[i].log]))

\* zip(native_args, arg_types, strict=False) stops at the shorter of the two
convert_args(self_arg_types, native_args, expect_itxn_args) ==
    LET num_args == Len(native_args)
        num_sig_args == Len(self_arg_types)
        logged ==
            IF num_sig_args # num_args
            THEN <<"expected " \o ToString(num_sig_args) \o " ABI argument"
                        \o (IF num_sig_args = 1 THEN "" ELSE "s")
                        \o ", got " \o ToString(num_args)>>
            ELSE <<>>
        arg_types == IF expect_itxn_args
                     THEN [i \in DOMAIN self_arg_types |-> _gtxn_to_itxn(self_arg_types[i])]
                     ELSE self_arg_types
        paired == IF num_args < num_sig_args THEN num_args ELSE num_sig_args
        arc4_args == [i \in 1..paired |->
                        _implicit_arc4_conversion(native_args[i], arg_types[i])]
    IN IF \E i \in DOMAIN arc4_args : arc4_args[i].raised
       THEN Sequenced(arc4_args)
       ELSE Returned([i \in DOMAIN arc4_args |-> arc4_args[i].value],
                     logged \o Flatten([i \in DOMAIN arc4_args |-> arc4_args[i].log]))

\* self.arg_types are ARC-4 or transaction types, as ARC4Signature's converter
\* leaves them
ConvertArgs ==
    /\ pc = "idle"
    /\ \E self_arg_types \in
            SeqsUpTo({pytypes.ARC4UInt64Type, pytypes.ARC4StringType,
                      TransactionRelatedType("GroupTransaction", Some("pay"))},
                     MaxAbiArgs),
          native_args \in
            SeqsUpTo({Builder(TRUE, pytypes.UInt64Type),
                      Builder(TRUE, pytypes.ARC4StringType),
                      Builder(TRUE, pytypes.BoolType),
                      Builder(TRUE, TransactionRelatedType("InnerTransactionFieldset",
                                                           Some("pay"))),
                      Builder(FALSE, pytypes.UInt64Type)},
                     MaxAbiArgs),
          expect_itxn_args \in BOOLEAN :
        LET r == convert_args(self_arg_types, native_args, expect_itxn_args)
        IN /\ call' = [fn |-> "convert_args", self_arg_types |-> self_arg_types,
                       native_args |-> native_args,
                       expect_itxn_args |-> expect_itxn_args, result |-> r]
           /\ log' = r.log
    /\ pc' = "done"
    /\ UNCHANGED <<server, program_mir, optimization_level, teal, before, passes>>

BuildersNext ==
    \/ ImplicitArc4Conversion
    \/ BinaryOp
    \/ AugmentedAssignment
    \/ TupleIndex
    \/ ConvertArgs

SpecBuilders == IdleInit /\ [][BuildersNext]_vars

(***************************************************************************)
(* The language server: puyapy/lsp.py.  A handler runs to its end before   *)
(* the next notification is taken, so each one is one step.                *)
(***************************************************************************)
MaxVersion == 2     \* versions a document goes through

\* the entries a stage of the compiler may write to the logging context:
\* errors, warnings and an info, with a location in a file, with a location
\* that has no file, and with no location
LogEntries(message) ==
    LET SourceLocation(file, column, end_column) ==
            Some([file |-> file, line |-> 2, column |-> column,
                  end_line |-> 3, end_column |-> end_column])
        Log(level, location) ==
            [level |-> level, message |-> message, location |-> location]
    IN {Log("error", SourceLocation(Some("a.py"), Some(2), Some(5))),
        Log("error", SourceLocation(Some("b.py"), None, None)),
        Log("warning", SourceLocation(Some("a.py"), None, Some(5))),
        Log("info", SourceLocation(Some("b.py"), Some(2), None)),
        Log("error", None),
        Log("warning", SourceLocation(None, Some(2), Some(5)))}

\* LoggingContext.num_errors
num_errors(logs) == Cardinality({i \in DOMAIN logs : logs[i].level = "error"})

_resolve_location(loc) ==
    IF loc # None /\ loc[1].file # None
    THEN LET document_line == <<"x", " ", "=", " ", "1", "2", "3">>
             line == loc[1].line - 1
             column == IF loc[1].column = None THEN 0 ELSE loc[1].column[1]
             end_line == loc[1].end_line - 1
             end_column == IF loc[1].end_column = None THEN Len(document_line)
                           ELSE loc[1].end_column[1]
         IN [start |-> [line |-> line, character |-> column],
             end |-> [line |-> end_line, character |-> end_column]]
    ELSE [start |-> [line |-> 0, character |-> 0],
          end |-> [line |-> 0, character |-> 0]]

\* _diag with _map_severity; the data field (the text the range covers) is
\* read only by code_actions and is left out
_diag(message, level, range_) ==
    [message |-> message,
     severity |-> IF level = "error" THEN "Error"
                  ELSE IF level = "warning" THEN "Warning"
                  ELSE "Information",
     range |-> range_,
     source |-> "puyapy-lsp"]

\* the modules kept are those whose path has no located error
_filter_parse_results(logs, ordered_modules) ==
    LET files_with_errors ==
            {logs[i].location[1].file[1] :
                i \in {k \in DOMAIN logs : /\ logs[k].level = "error"
                                           /\ logs[k].location # None
                                           /\ logs[k].location[1].file # None}}
    IN ordered_modules \ files_with_errors

\* code generation entered as soon as parsing is clean
ParseAndLogLoweringAfterParse(parse_logs, awst_logs, teal_logs) ==
    LET ordered_modules ==
            IF num_errors(parse_logs) > 0
            THEN _filter_parse_results(parse_logs, Files)
            ELSE Files
        lowered == num_errors(parse_logs) = 0
    IN [logs |-> parse_logs \o awst_logs \o (IF lowered THEN teal_logs ELSE <<>>),
        parse_logs |-> parse_logs,
        awst_logs |-> awst_logs,
        transformed |-> Some(ordered_modules),
        lowered |-> lowered]

\* parse_logs, awst_logs and teal_logs are what parse_with_mypy, transform_ast
\* and awst_to_teal write to log_ctx when they run
_parse_and_log(parse_logs, awst_logs, teal_logs) ==
    LET ordered_modules ==
            IF num_errors(parse_logs) > 0
            THEN _filter_parse_results(parse_logs, Files)
            ELSE Files
        lowered == num_errors(parse_logs \o awst_logs) = 0
    IN [logs |-> parse_logs \o awst_logs \o (IF lowered THEN teal_logs ELSE <<>>),
        parse_logs |-> parse_logs,
        awst_logs |-> awst_logs,
        transformed |-> Some(ordered_modules),
        lowered |-> lowered]

\* the dict built from the logs of this run alone
ParseAllOfLoggedFilesOnly(self_diagnostics, documents, logs) ==
    LET located == SelectSeq(logs, LAMBDA l : l.location # None /\ l.location[1].file # None)
        uris == {located[i].location[1].file[1] : i \in DOMAIN located}
    IN [uri \in uris |->
            LET mine == SelectSeq(located, LAMBDA l : l.location[1].file[1] = uri)
            IN [version |-> documents[uri],
                diagnostics |->
                    [i \in DOMAIN mine |->
                        _diag(mine[i].message, mine[i].level,
                              _resolve_location(mine[i].location))]]]

\* the new lists are appended to the ones of the run before
ParseAllKeepingDiagnostics(self_diagnostics, documents, logs) ==
    LET located == SelectSeq(logs, LAMBDA l : l.location # None /\ l.location[1].file # None)
        uris == DOMAIN self_diagnostics
                    \cup {located[i].location[1].file[1] : i \in DOMAIN located}
    IN [uri \in uris |->
            LET mine == SelectSeq(located, LAMBDA l : l.location[1].file[1] = uri)
            IN [version |-> documents[uri],
                diagnostics |->
                    (IF uri \in DOMAIN self_diagnostics
                     THEN self_diagnostics[uri].diagnostics ELSE <<>>)
                    \o [i \in DOMAIN mine |->
                            _diag(mine[i].message, mine[i].level,
                                  _resolve_location(mine[i].location))]]]

\* the value parse_all assigns to self.diagnostics, from the logs its call of
\* _parse_and_log returns
parse_all(self_diagnostics, documents, logs) ==
    LET located == SelectSeq(logs, LAMBDA l : l.location # None /\ l.location[1].file # None)
        uris == DOMAIN self_diagnostics
                    \cup {located[i].location[1].file[1] : i \in DOMAIN located}
    IN [uri \in uris |->
            LET mine == SelectSeq(located, LAMBDA l : l.location[1].file[1] = uri)
            IN [version |-> documents[uri],
                diagnostics |->
                    [i \in DOMAIN mine |->
                        _diag(mine[i].message, mine[i].level,
                              _resolve_location(mine[i].location))]]]

\* what the three stages log in one run; transform_ast logs about the
\* modules it is given only, awst_to_teal logs only when it is called
CompileRuns ==
    LET StageLogs(message) == {<<>>} \cup {<<l>> : l \in LogEntries(message)}
        InModules(logs, modules) ==
            \A i \in DOMAIN logs :
                (logs[i].location # None /\ logs[i].location[1].file # None)
                    => logs[i].location[1].file[1] \in modules
    IN {r \in [parse_logs : StageLogs("parse"), awst_logs : StageLogs("awst"),
               teal_logs : {l \in StageLogs("teal") :
                                l # <<>> => /\ l[1].level # "info"
                                            /\ l[1].location # None
                                            /\ l[1].location[1].file # None
                                            /\ l[1].location[1].column # None}] :
            /\ InModules(r.awst_logs,
                         _parse_and_log(r.parse_logs, <<>>, <<>>).transformed[1])
            /\ r.teal_logs # <<>> =>
                    _parse_and_log(r.parse_logs, r.awst_logs, <<>>).lowered}

\* parse_all, then one publication for every uri of self.diagnostics
_refresh_diagnostics(documents, r) ==
    LET result == _parse_and_log(r.parse_logs, r.awst_logs, r.teal_logs)
        new == parse_all(diagnostics, documents, result.logs)
    IN /\ run' = result
       /\ diagnostics' = new
       /\ published' = [uri \in DOMAIN published \cup DOMAIN new |->
                            IF uri \in DOMAIN new THEN new[uri] ELSE published[uri]]

\* textDocument/didOpen: the workspace takes the document in, then the handler
DidOpen ==
    /\ pc = "listening"
    /\ \E uri \in Files, r \in CompileRuns :
        /\ text_documents[uri] = None
        /\ text_documents' = [text_documents EXCEPT ![uri] = Some(1)]
        /\ _refresh_diagnostics(text_documents', r)
    /\ UNCHANGED <<pc, program_mir, optimization_level, teal, before, passes, call, log>>

\* textDocument/didChange: the workspace applies the change, then the handler
DidChange ==
    /\ pc = "listening"
    /\ \E uri \in Files, r \in CompileRuns :
        /\ text_documents[uri] # None
        /\ text_documents[uri][1] < MaxVersion
        /\ text_documents' = [text_documents EXCEPT ![uri] = Some(@[1] + 1)]
        /\ _refresh_diagnostics(text_documents', r)
    /\ UNCHANGED <<pc, program_mir, optimization_level, teal, before, passes, call, log>>

\* textDocument/didSave
DidSave ==
    /\ pc = "listening"
    /\ \E uri \in Files : text_documents[uri] # None
    /\ \E r \in CompileRuns : _refresh_diagnostics(text_documents, r)
    /\ UNCHANGED <<pc, program_mir, optimization_level, teal, before, passes, call,
                   log, text_documents>>

LspInit ==
    /\ pc = "listening"
    /\ program_mir = NoProgram
    /\ optimization_level = 0
    /\ teal = NoProgram
    /\ before = <<>>
    /\ passes = <<>>
    /\ call = NoCall
    /\ log = <<>>
    /\ ServerInit

LspNext ==
    \/ DidOpen
    \/ DidChange
    \/ DidSave

SpecLsp == LspInit /\ [][LspNext]_vars

(***************************************************************************)
(* ARC4 arrays of arc4.bool: examples/arc4_types/bool.py.  The encoder is  *)
(* the compiler's; it is written here from the ARC4 rules of the           *)
(* specification, and the example contract asserts its results.            *)
(***************************************************************************)
MaxBools == 12      \* elements of an array of arc4.bool

\* the bits packed with the first element in the lowest bit
EncodeBoolArrayLsbFirst(values, is_dynamic) ==
    LET n == Len(values)
        bit(i) == IF i <= n /\ values[i] THEN 1 ELSE 0
        data == [k \in 1..((n + 7) \div 8) |->
                    SumSeq([j \in 1..8 |-> bit(8 * (k - 1) + j) * 2^(j - 1)])]
    IN (IF is_dynamic THEN <<n \div 256, n % 256>> ELSE <<>>) \o data

\* the bytes of an array of arc4.bool: the count in two bytes for a dynamic
\* array, then one bit for each element, the first in the highest bit
arc4_encode_bool_array(values, is_dynamic) ==
    LET n == Len(values)
        bit(i) == IF i <= n /\ values[i] THEN 1 ELSE 0
        data == [k \in 1..((n + 7) \div 8) |->
                    SumSeq([j \in 1..8 |-> bit(8 * (k - 1) + j) * 2^(8 - j)])]
    IN (IF is_dynamic THEN <<n \div 256, n % 256>> ELSE <<>>) \o data

\* StaticArray[ARC4Bool, n](...).bytes and DynamicArray[ARC4Bool](...).bytes
EncodeBoolArray ==
    /\ pc = "idle"
    /\ \E values \in SeqsUpTo(BOOLEAN, MaxBools), is_dynamic \in BOOLEAN :
        call' = [fn |-> "bytes", values |-> values, is_dynamic |-> is_dynamic,
                 result |-> arc4_encode_bool_array(values, is_dynamic)]
    /\ pc' = "done"
    /\ UNCHANGED <<server, program_mir, optimization_level, teal, before, passes, log>>

\* Arc4BoolTypeContract.approval_program: every assert in order, a failed one
\* ends the program
Arc4BoolApprovalProgram ==
    /\ pc = "idle"
    /\ LET from_hex(digits) ==
                [k \in 1..(Len(digits) \div 2) |->
                    16 * digits[2 * k - 1] + digits[2 * k]]
           F == 15
           A == 10
           ARC4Bool(value) == arc4_encode_bool_array(<<value>>, FALSE)
           decode(bytes) == bytes[1] \div 128 = 1
           item(bytes, i) == ARC4Bool((bytes[i \div 8 + 1] \div 2^(7 - (i % 8))) % 2 = 1)
           static_boolean_array ==
                arc4_encode_bool_array([i \in 1..12 |-> TRUE], FALSE)
           dynamic_boolean_array ==
                arc4_encode_bool_array(<<TRUE, FALSE, TRUE>>, TRUE)
           asserts ==
                <<decode(ARC4Bool(TRUE)),
                  ~decode(ARC4Bool(FALSE)),
                  ARC4Bool(TRUE) = ARC4Bool(decode(ARC4Bool(TRUE))),
                  ARC4Bool(FALSE) = ARC4Bool(decode(ARC4Bool(FALSE))),
                  static_boolean_array = from_hex(<<F, F, F, 0>>),
                  item(static_boolean_array, 0) = ARC4Bool(TRUE),
                  item(static_boolean_array, 12 - 1) = ARC4Bool(TRUE),
                  dynamic_boolean_array = from_hex(<<0, 0, 0, 3, A, 0>>)>>
       IN call' = [fn |-> "approval_program",
                   static_boolean_array |-> static_boolean_array,
                   dynamic_boolean_array |-> dynamic_boolean_array,
                   asserts |-> asserts,
                   result |-> IF \A i \in DOMAIN asserts : asserts[i]
                              THEN "True" ELSE "assert failed"]
    /\ pc' = "done"
    /\ UNCHANGED <<server, program_mir, optimization_level, teal, before, passes, log>>

Arc4BoolNext ==
    \/ EncodeBoolArray
    \/ Arc4BoolApprovalProgram

SpecArc4Bool == IdleInit /\ [][Arc4BoolNext]_vars

(***************************************************************************)
(* ImmutableArray[UInt64] in test_cases/array/immutable.py                 *)
(***************************************************************************)
MaxArrayLen == 4

\* ImmutableArray operations: each returns a new array, the elements a
\* sequence with arr[0] its first
append(arr, item) == arr \o <<item>>

\* popping an empty array fails; the callers here pop non-empty arrays
pop(arr) == SubSeq(arr, 1, Len(arr) - 1)

\* index is within the array, counted from 0
replace(arr, index_, value) == [arr EXCEPT ![index_ + 1] = value]

\* urange counted from 1
AddXFromOne(arr, x) ==
    LET RECURSIVE loop(_, _)
        loop(a, i) == IF i > x THEN a ELSE loop(append(a, i), i + 1)
    IN loop(arr, 1)

add_x(arr, x) ==
    LET RECURSIVE loop(_, _)
        loop(a, i) == IF i >= x THEN a ELSE loop(append(a, i), i + 1)
    IN loop(arr, 0)

pop_x(arr, x) ==
    LET RECURSIVE loop(_, _)
        loop(a, _i) == IF _i >= x THEN a ELSE loop(pop(a), _i + 1)
    IN loop(arr, 0)

\* the method's asserts in order, and self.a when they all hold:
\* failed_assert is the number of the first assert that fails, 0 if none
test_uint64_array ==
    LET at(a, i) == IF i < 0 THEN a[Len(a) + i + 1] ELSE a[i + 1]
        arr0 == <<>>
        arr1 == append(arr0, 42)
        arr2 == add_x(arr1, 5)
        arr3 == append(arr2, 43)
        arr4 == pop_x(arr3, 3)
        arr5 == add_x(arr4, 10)
        arr6 == append(arr5, 44)
        arr7 == replace(arr6, 2, 23)
        asserts == <<Len(arr0) = 0,
                     Len(arr1) = 1, at(arr1, -1) = 42,
                     Len(arr2) = 6, at(arr2, -1) = 4,
                     Len(arr3) = 7, at(arr3, -1) = 43, at(arr3, 0) = 42,
                     Len(arr4) = 4, at(arr4, -1) = 2,
                     Len(arr5) = 14, at(arr5, -1) = 9,
                     Len(arr6) = 15, at(arr6, -1) = 44,
                     Len(arr7) = 15, at(arr7, 2) = 23>>
        failing == {n \in 1..Len(asserts) : ~asserts[n]}
    IN IF failing = {}
       THEN [failed_assert |-> 0, a |-> Some(arr7)]
       ELSE [failed_assert |-> CHOOSE n \in failing : \A m \in failing : n <= m,
             a |-> None]

TestUint64Array ==
    /\ pc = "idle"
    /\ call' = [fn |-> "test_uint64_array", result |-> test_uint64_array]
    /\ pc' = "done"
    /\ UNCHANGED <<server, program_mir, optimization_level, teal, before, passes, log>>

\* arr = ImmutableArray[UInt64]()
ArrayNew ==
    /\ pc = "idle"
    /\ call' = [fn |-> "ImmutableArray", op |-> "new", args |-> <<>>,
                before |-> <<>>, arr |-> <<>>]
    /\ pc' = "array"
    /\ UNCHANGED <<server, program_mir, optimization_level, teal, before, passes, log>>

\* arr = arr.append(item)
ArrayAppend ==
    /\ pc = "array"
    /\ Len(call.arr) < MaxArrayLen
    /\ \E item \in {0, 42} :
         call' = [fn |-> "ImmutableArray", op |-> "append", args |-> <<item>>,
                  before |-> call.arr, arr |-> append(call.arr, item)]
    /\ UNCHANGED <<pc, server, program_mir, optimization_level, teal, before, passes, log>>

\* arr = arr.pop()
ArrayPop ==
    /\ pc = "array"
    /\ Len(call.arr) > 0
    /\ call' = [fn |-> "ImmutableArray", op |-> "pop", args |-> <<>>,
                before |-> call.arr, arr |-> pop(call.arr)]
    /\ UNCHANGED <<pc, server, program_mir, optimization_level, teal, before, passes, log>>

\* arr = arr.replace(index, value)
ArrayReplace ==
    /\ pc = "array"
    /\ \E index_ \in 0..(Len(call.arr) - 1), value \in {0, 23} :
         call' = [fn |-> "ImmutableArray", op |-> "replace", args |-> <<index_, value>>,
                  before |-> call.arr, arr |-> replace(call.arr, index_, value)]
    /\ UNCHANGED <<pc, server, program_mir, optimization_level, teal, before, passes, log>>

ImmutableArrayNext ==
    \/ TestUint64Array
    \/ ArrayNew
    \/ ArrayAppend
    \/ ArrayPop
    \/ ArrayReplace

SpecImmutableArray == IdleInit /\ [][ImmutableArrayNext]_vars

(***************************************************************************)
(* Claims about the TEAL pipeline.                                         *)
(***************************************************************************)
TealBlocksOf(teal_program) ==
    LET subs == all_subroutines(teal_program)
    IN Flatten([s \in DOMAIN subs |-> subs[s].blocks])

\* C1: mir_to_teal returns a program only when the stack manipulations of
\* every subroutine, main included, are the same before and after the passes.
C1_ReturnsOnlyIfEverySubroutinePreserved ==
    pc = "returned" =>
        StackManipulationsOf(all_subroutines(teal))
            = StackManipulationsOf(all_subroutines(_build_teal(program_mir).program))

\* a fall-through MIR block that is merged starts at the height the block
\* before it ends at
Continuous(mir_sub) ==
    \A i \in 2..Len(mir_sub.blocks) :
        mir_sub.blocks[i].block_name \notin _get_referenced_labels(mir_sub) =>
            mir_sub.blocks[i].entry_stack_height
                = mir_sub.blocks[i - 1].exit_stack_height

\* C2: every block of the program _build_teal returns, a block merged from
\* several fall-through MIR blocks included, satisfies entry height + net
\* stack effect of its ops = exit height; and _build_teal does return when
\* the merged MIR blocks continue each other's height.
C2_BlockValidity ==
    /\ pc = "optimize" =>
        \A b \in Range(TealBlocksOf(teal)) :
            b.entry_stack_height
                + SumSeq([i \in DOMAIN b.ops |-> b.ops[i].produces - b.ops[i].consumes])
            = b.exit_stack_height
    /\ pc = "raised" =>
        \E s \in Range(<<program_mir.main>> \o program_mir.subroutines) :
            ~Continuous(s)

C2_Witness ==
    /\ pc = "optimize"
    /\ Len(program_mir.main.blocks) = 3
    /\ Len(teal.main.blocks) = 1
    /\ Len(teal.main.blocks[1].ops) >= 2

\* C3: in the program _build_teal returns every block label is distinct and
\* every branch target is the label of some block, whichever block a branch
\* targets.
C3_LabelsDistinctAndTargetsResolve ==
    pc = "optimize" =>
        LET blocks == TealBlocksOf(teal)
        IN /\ \A i, j \in DOMAIN blocks :
                blocks[i].label = blocks[j].label => i = j
           /\ \A i \in DOMAIN blocks : \A o \in DOMAIN blocks[i].ops :
                \A t \in Range(blocks[i].ops[o].targets) :
                    \E j \in DOMAIN blocks : blocks[j].label = t


(***************************************************************************)
(* Claims about the wtypes.                                                *)
(***************************************************************************)
Compared == call.fn = "wtype_eq" /\ call.a.ok /\ call.b.ok

AliasedCtors == {"ARC4UIntN", "ARC4DynamicArray", "ARC4StaticArray"}

\* the two constructor calls differ in the alias alone
DifferInAliasOnly(ca, cb) ==
    /\ ca.ctor = cb.ctor
    /\ ca.ctor \in AliasedCtors
    /\ ca.alias # cb.alias
    /\ [ca EXCEPT !.alias = None] = [cb EXCEPT !.alias = None]

\* C4 as stated: two wtypes are equal if and only if their names are equal.
C4_EqualIffNamesEqual ==
    Compared => (call.result <=> call.a.value.name = call.b.value.name)

\* C4 as amended: equal wtypes have equal names, and two wtypes constructed
\* alike but for the alias (the ARC4 canonical name) are equal.
C4_EqualImpliesNamesEqual ==
    Compared =>
        /\ call.result => call.a.value.name = call.b.value.name
        /\ DifferInAliasOnly(call.ctor_a, call.ctor_b) => call.result

C4_Witness ==
    /\ Compared
    /\ DifferInAliasOnly(call.ctor_a, call.ctor_b)
    /\ call.a.value.arc4_name # call.b.value.arc4_name
    /\ call.result
    /\ call.a.value.name = call.b.value.name


(***************************************************************************)
(* Claims about ARC4 method signatures.                                    *)
(***************************************************************************)
\* the text of a sequence of elements
Str(s) == JoinWith(s, "")

\* the nesting depth after the first k elements of s
Depth(s, k) ==
    Cardinality({i \in 1..k : s[i] = "("}) - Cardinality({i \in 1..k : s[i] = ")"})

\* parentheses balanced: the depth never goes below zero and ends at zero
Balanced(s) ==
    /\ \A k \in 1..Len(s) : Depth(s, k) >= 0
    /\ Depth(s, Len(s)) = 0

NoParens(s) == \A i \in DOMAIN s : s[i] \notin {"(", ")"}

\* an atom, or one balanced parenthesised tuple
IsReturnPart(s) ==
    \/ NoParens(s)
    \/ /\ Len(s) >= 2
       /\ s[1] = "(" /\ s[Len(s)] = ")"
       /\ Balanced(SubSeq(s, 2, Len(s) - 1))

\* signature = name ( args ) ret, the parentheses at positions i and j
HasShape(signature, i, j) ==
    /\ 1 < i /\ i < j /\ j <= Len(signature)
    /\ NoParens(SubSeq(signature, 1, i - 1))
    /\ signature[i] = "(" /\ signature[j] = ")"
    /\ Balanced(SubSeq(signature, i + 1, j - 1))
    /\ IsReturnPart(SubSeq(signature, j + 1, Len(signature)))

SplitCalled == call.fn = "_split_signature"

\* C5: on a signature of the shape name(args)return, _split_signature
\* returns the text before the first "(" as the name, the text inside the
\* first balanced group as the arg-list and the whole remaining suffix as
\* the return type (none when the suffix is empty).
C5_SplitsNameArgsReturn ==
    SplitCalled =>
        \A i, j \in 1..Len(call.signature) :
            HasShape(call.signature, i, j) =>
                /\ ~call.result.raised
                /\ call.result.value.name = SubSeq(call.signature, 1, i - 1)
                /\ call.result.value.args = Some(SubSeq(call.signature, i + 1, j - 1))
                /\ call.result.value.returns =
                        IF j = Len(call.signature) THEN None
                        ELSE Some(SubSeq(call.signature, j + 1, Len(call.signature)))

C5_Witness ==
    /\ SplitCalled
    /\ call.signature = <<"hello", "(", "uint64", ",", "string", ")", "uint64">>
    /\ ~call.result.raised
    /\ Str(call.result.value.name) = "hello"
    /\ Str(call.result.value.args[1]) = "uint64,string"
    /\ Str(call.result.value.returns[1]) = "uint64"

\* C6: a signature with text left over after its name, arg-list and return
\* part is rejected with CodeError "invalid signature, text after returns";
\* "(a)b(c)" is rejected this way.
C6_TextAfterReturnsRejected ==
    SplitCalled =>
        /\ call.signature = <<"(", "a", ")", "b", "(", "c", ")">> =>
                /\ call.result.raised
                /\ call.result.message = "invalid signature, text after returns"
        /\ \A i, j, k \in 1..Len(call.signature) :
                (/\ j <= k /\ k < Len(call.signature)
                 /\ HasShape(SubSeq(call.signature, 1, k), i, j)
                 /\ ~\E i2, j2 \in 1..Len(call.signature) :
                        HasShape(call.signature, i2, j2)) =>
                    /\ call.result.raised
                    /\ call.result.message = "invalid signature, text after returns"

\* a parenthesised group at the top level of the signature opens at i and
\* closes at j
GroupAt(signature, i, j) ==
    /\ i < j
    /\ Depth(signature, i - 1) = 0
    /\ signature[i] = "(" /\ signature[j] = ")"
    /\ Balanced(SubSeq(signature, i + 1, j - 1))

\* the arg-list is the first such group
ArgListAt(signature, i, j) ==
    /\ GroupAt(signature, i, j)
    /\ \A k \in 1..(i - 1), l \in 1..Len(signature) : ~GroupAt(signature, k, l)

HasArgList(signature) ==
    \E i, j \in 1..Len(signature) : ArgListAt(signature, i, j)

ArgListText(signature) ==
    LET ij == CHOOSE ij \in (1..Len(signature)) \X (1..Len(signature)) :
                ArgListAt(signature, ij[1], ij[2])
    IN SubSeq(signature, ij[1] + 1, ij[2] - 1)

\* nothing follows the arg-list, or there is no arg-list
ReturnAbsent(signature) ==
    \/ ~HasArgList(signature)
    \/ \E i \in 1..Len(signature) : ArgListAt(signature, i, Len(signature))

\* the ARC4 type a call-site argument's type converts to implicitly
InferredType(typ) ==
    CASE typ = pytypes.StrLiteralType -> pytypes.ARC4StringType
      [] typ = pytypes.UInt64Type -> pytypes.ARC4UInt64Type
      [] OTHER -> pytypes.NoneType

\* the ARC4 types named in the elements of an arg-list
NamedTypes(text) ==
    {t \in {pytypes.ARC4UInt64Type, pytypes.ARC4StringType, pytypes.ARC4BoolType} :
        \E i \in DOMAIN text :
            \/ text[i] = "uint64" /\ t = pytypes.ARC4UInt64Type
            \/ text[i] = "string" /\ t = pytypes.ARC4StringType
            \/ text[i] = "bool" /\ t = pytypes.ARC4BoolType}

GetCalled == call.fn = "get_arc4_signature" /\ call.method # None

\* C7: get_arc4_signature infers the argument types from the call-site
\* arguments exactly when the signature has no parenthesised arg-list; an
\* empty arg-list gives zero argument types whatever the call-site
\* arguments are; an absent or empty return part gives void.
C7_ArgTypesInferredIffNoArgList ==
    (GetCalled /\ ~call.result.raised) =>
        LET signature == call.method[1]
            sig == call.result.value.signature
        IN /\ ~HasArgList(signature) =>
                sig.arg_types = [i \in DOMAIN call.native_args |->
                                    InferredType(call.native_args[i].pytype)]
           /\ HasArgList(signature) =>
                /\ ArgListText(signature) = <<>> => sig.arg_types = <<>>
                /\ ArgListText(signature) # <<>> =>
                    /\ Len(sig.arg_types) =
                            1 + Cardinality({p \in DOMAIN ArgListText(signature) :
                                    /\ ArgListText(signature)[p] = ","
                                    /\ Depth(ArgListText(signature), p) = 0})
                    /\ \A i \in DOMAIN sig.arg_types :
                        \/ sig.arg_types[i] \in NamedTypes(ArgListText(signature))
                        \/ sig.arg_types[i].cls = "TupleType"
           /\ ReturnAbsent(signature) => sig.return_type = pytypes.NoneType

\* inferred from a call-site argument, with no arg-list in the signature
C7_WitnessInferred ==
    /\ GetCalled /\ ~call.result.raised
    /\ ~HasArgList(call.method[1])
    /\ call.native_args = <<Builder(TRUE, pytypes.StrLiteralType)>>
    /\ call.result.value.signature.arg_types = <<pytypes.ARC4StringType>>
    /\ call.result.value.signature.return_type = pytypes.NoneType

(***************************************************************************)
(* Claims about argument coercion.                                         *)
(***************************************************************************)
ConversionCalled == call.fn = "_implicit_arc4_conversion"

\* the call coerces a group or inner transaction operand to a declared
\* transaction type
TransactionOperandForTransactionTarget ==
    /\ ConversionCalled
    /\ call.target_type.cls = "TransactionRelatedType"
    /\ call.operand.is_instance
    /\ call.operand.pytype.cls = "TransactionRelatedType"

\* same transaction kind, or either is the any-kind
CompatibleKinds(a, b) ==
    \/ a.transaction_type = b.transaction_type
    \/ a.transaction_type = None
    \/ b.transaction_type = None

PassedThroughSilently ==
    /\ ~call.result.raised
    /\ call.result.value = [from |-> "operand", pytype |-> call.operand.pytype]
    /\ call.result.log = <<>>

ExpectedTypeErrorAndDummy ==
    /\ ~call.result.raised
    /\ call.result.value = [from |-> "dummy_value", pytype |-> call.target_type]
    /\ call.result.log = <<"expected type">>

\* C8 (as stated): with a transaction type as target, every group or inner
\* transaction operand of a compatible kind is passed through unchanged
\* without a diagnostic; only an incompatible one logs 'expected type' and
\* is replaced by a dummy value.
C8_CompatibleTransactionPassesThrough ==
    TransactionOperandForTransactionTarget =>
        IF CompatibleKinds(call.operand.pytype, call.target_type)
        THEN PassedThroughSilently
        ELSE ExpectedTypeErrorAndDummy

IsFieldset(typ) == typ.wtype[1].cls = "WInnerTransactionFields"

\* C8 (amended): the operand is passed through unchanged without a
\* diagnostic when its type is the target type, or when operand and target
\* are both inner transaction field sets of compatible kinds; every other
\* transaction operand logs 'expected type' and is replaced by a dummy value.
C8_FieldsetsOfCompatibleKindPassThrough ==
    TransactionOperandForTransactionTarget =>
        IF \/ call.operand.pytype = call.target_type
           \/ /\ IsFieldset(call.operand.pytype) /\ IsFieldset(call.target_type)
              /\ CompatibleKinds(call.operand.pytype, call.target_type)
        THEN PassedThroughSilently
        ELSE ExpectedTypeErrorAndDummy

\* a payment field set passed where any inner transaction field set is declared
C8_Witness ==
    /\ TransactionOperandForTransactionTarget
    /\ call.operand.pytype = TransactionRelatedType("InnerTransactionFieldset", Some("pay"))
    /\ call.target_type = TransactionRelatedType("InnerTransactionFieldset", None)
    /\ PassedThroughSilently

(***************************************************************************)
(* Claims about the BigUInt and ARC4 tuple builders.                       *)
(***************************************************************************)
\* the call under study with floor_div in place of its operator
SameCallWithFloorDiv ==
    IF call.fn = "binary_op" THEN binary_op(call.other, "floor_div", call.reverse)
    ELSE augmented_assignment(call.is_lvalue, "floor_div", call.rhs)

\* a BigUInt operation with operator / on operands for which // gives a node
TrueDivisionTranslated ==
    /\ call.fn \in {"binary_op", "augmented_assignment"}
    /\ call.op = "div"
    /\ ~SameCallWithFloorDiv.raised
    /\ SameCallWithFloorDiv.value.node # "NotImplemented"

\* C9: a BigUInt binary operation or augmented assignment with operator /
\* logs exactly one error, which points to //, raises nothing and gives the
\* node that // gives on the same operands (operator floor_div).
C9_TrueDivisionLogsAndFloors ==
    TrueDivisionTranslated =>
        /\ ~call.result.raised
        /\ call.result.log =
                <<"only the truncating division operator (//) is supported">>
        /\ log = call.result.log
        /\ SameCallWithFloorDiv.log = <<>>
        /\ call.result.value = SameCallWithFloorDiv.value
        /\ call.result.value.op = BuilderBinaryOp.floor_div

C9_Witness ==
    /\ TrueDivisionTranslated
    /\ call.fn = "augmented_assignment"
    /\ call.rhs.pytype = pytypes.UInt64Type
    /\ call.result.value.node = "BigUIntAugmentedAssignment"
    /\ call.result.value.op = "//"
    /\ Len(log) = 1

IndexCalled == call.fn = "index"

IsIntLiteral(idx) == idx.literal /\ idx.pytype = pytypes.IntLiteralType

\* C10: an ARC4 tuple is indexed only by an int literal: any other index
\* raises CodeError, an int literal outside the tuple's range raises
\* CodeError 'Tuple index out of bounds', and an accepted index gives a
\* builder of the item type at that index.
C10_TupleIndexedByIntLiteralInRange ==
    IndexCalled =>
        LET items == call.self_pytype.items
            n == Len(items)
        IN /\ ~IsIntLiteral(call.index) =>
                call.result.raised /\ call.result.error = "CodeError"
           /\ (IsIntLiteral(call.index)
                    /\ (call.index.value >= n \/ call.index.value < 0 - n)) =>
                /\ call.result.raised /\ call.result.error = "CodeError"
                /\ call.result.message = "Tuple index out of bounds"
           /\ ~call.result.raised =>
                /\ IsIntLiteral(call.index)
                /\ call.index.value \in (0 - n)..(n - 1)
                /\ call.result.value.pytype = items[(call.index.value % n) + 1]

C10_Witness ==
    /\ IndexCalled
    /\ call.self_pytype.items = <<pytypes.ARC4UInt64Type, pytypes.ARC4StringType>>
    /\ call.index.value = 1 /\ IsIntLiteral(call.index)
    /\ ~call.result.raised
    /\ call.result.value.pytype = pytypes.ARC4StringType

(***************************************************************************)
(* Claims about wtype constructors.                                        *)
(***************************************************************************)
UIntNConstructed == call.fn = "wtype_eq" /\ call.ctor_a.ctor = "ARC4UIntN"

ValidBitSize(n) == n % 8 = 0 /\ 8 <= n /\ n <= 512

FailsWithCodeOrInternalError(r) ==
    ~r.ok /\ r.error \in {"CodeError", "InternalError"}

\* C11 (as stated): ARC4UIntN gives a type exactly for n a multiple of 8 in
\* 8..512 with decode type uint64 when n <= 64 and biguint when n > 64;
\* every other combination fails with CodeError or InternalError.
C11_DecodeTypeFixedByWidth ==
    UIntNConstructed =>
        LET n == call.ctor_a.n
            d == call.ctor_a.decode_type
        IN IF ValidBitSize(n) /\ d = (IF n <= 64 THEN uint64_wtype ELSE biguint_wtype)
           THEN call.a.ok /\ call.a.value.n = n /\ call.a.value.decode_type = Some(d)
           ELSE FailsWithCodeOrInternalError(call.a)

\* C11 (amended): ARC4UIntN gives a type exactly for n a multiple of 8 in
\* 8..512 with decode type biguint (any such n) or uint64 (n <= 64 only);
\* every other combination fails with CodeError or InternalError.
C11_UInt64OnlyUpTo64BigUIntAnyWidth ==
    UIntNConstructed =>
        LET n == call.ctor_a.n
            d == call.ctor_a.decode_type
        IN IF ValidBitSize(n) /\ (d = biguint_wtype \/ (d = uint64_wtype /\ n <= 64))
           THEN call.a.ok /\ call.a.value.n = n /\ call.a.value.decode_type = Some(d)
           ELSE FailsWithCodeOrInternalError(call.a)

\* an 8 bit type decoding to biguint
C11_Witness ==
    /\ UIntNConstructed
    /\ call.ctor_a.n = 8 /\ call.ctor_a.decode_type = biguint_wtype
    /\ call.a.ok
    /\ call.a.value.name = "arc4.uint8"
    /\ call.a.value.decode_type = Some(biguint_wtype)

Constructed == call.fn = "construct" /\ call.result.ok

\* the types held by a wtype: tuple items, struct fields, array element
Children(w) ==
    Range(w.types) \cup {w.fields[i][2] : i \in DOMAIN w.fields}
        \cup Range(w.element_type)

RECURSIVE Reachable(_)
Reachable(w) == Children(w) \cup UNION {Reachable(c) : c \in Children(w)}

\* C12: an immutable wtype has only immutable component types, however
\* deep (tuple item, struct field, array element).
C12_ImmutableImpliesComponentsImmutable ==
    (Constructed /\ call.result.value.immutable) =>
        \A c \in Reachable(call.result.value) : c.immutable

\* C13: an arc4.tuple is immutable exactly when all its items are; an
\* arc4.struct is immutable exactly when declared immutable and all its
\* fields are immutable.
C13_ARC4AggregateImmutability ==
    Constructed =>
        /\ call.ctor.ctor = "ARC4Tuple" =>
            (call.result.value.immutable <=>
                \A i \in DOMAIN call.ctor.types : call.ctor.types[i].immutable)
        /\ call.ctor.ctor = "ARC4Struct" =>
            (call.result.value.immutable <=>
                /\ call.ctor.immutable
                /\ \A i \in DOMAIN call.ctor.fields : call.ctor.fields[i][2].immutable)

\* a struct declared immutable with one mutable field among two
C13_Witness ==
    /\ Constructed
    /\ call.ctor.ctor = "ARC4Struct" /\ call.ctor.immutable
    /\ Len(call.ctor.fields) = 2
    /\ call.ctor.fields[1][2] = arc4_bool_wtype
    /\ call.ctor.fields[2][2] = arc4_mutable_bytes
    /\ ~call.result.value.immutable

\* not ephemeral, and of scalar class u64 or bytes
Storable(wtype) == ~wtype.ephemeral /\ wtype.scalar_type \in {"uint64", "bytes"}

\* C14: persistable_stack_type returns the scalar class exactly when the
\* wtype is not ephemeral and its scalar class is not none, and raises
\* CodeError otherwise; validate_persistable returns true exactly where
\* persistable_stack_type succeeds, and otherwise logs one error and
\* returns false without raising.
C14_PersistableExactlyWhenStorable ==
    /\ call.fn = "persistable_stack_type" =>
        IF Storable(call.wtype)
        THEN ~call.result.raised /\ call.result.value = call.wtype.scalar_type
        ELSE call.result.raised /\ call.result.error = "CodeError"
    /\ call.fn = "validate_persistable" =>
        /\ ~call.result.raised
        /\ call.result.value = ~persistable_stack_type(call.wtype).raised
        /\ call.result.value = Storable(call.wtype)
        /\ Len(log) = IF call.result.value THEN 0 ELSE 1

\* a group transaction: a u64 on the stack, but ephemeral
C14_Witness ==
    /\ call.fn = "validate_persistable"
    /\ call.wtype = WGroupTransaction_from_type(Some("pay"))
    /\ call.wtype.scalar_type = "uint64"
    /\ call.result.value = FALSE
    /\ Len(log) = 1

NativeWithEquivalent ==
    {bool_wtype, uint64_wtype, bytes_wtype, biguint_wtype, string_wtype}

\* C15: has_arc4_equivalent_type is true for bool, u64, bytes, biguint and
\* string; for a tuple exactly when every element is an ARC4 type or has an
\* equivalent and none is itself a tuple; false for every other wtype.
C15_HasEquivalent ==
    call.fn = "has_arc4_equivalent_type" =>
        call.result =
            IF call.wtype \in NativeWithEquivalent THEN TRUE
            ELSE IF call.wtype.cls = "WTuple"
            THEN \A i \in DOMAIN call.wtype.types :
                    /\ call.wtype.types[i].cls # "WTuple"
                    /\ \/ IsARC4Type(call.wtype.types[i])
                       \/ call.wtype.types[i] \in NativeWithEquivalent
            ELSE FALSE

\* a tuple with a tuple among its elements has no equivalent
C15_Witness ==
    /\ call.fn = "has_arc4_equivalent_type"
    /\ call.wtype.cls = "WTuple"
    /\ Len(call.wtype.types) = 2
    /\ call.wtype.types[1] = uint64_wtype
    /\ call.wtype.types[2].cls = "WTuple"
    /\ call.result = FALSE

\* the equivalents of the five native types
EquivalentOfNative(w) ==
    CASE w = bool_wtype -> arc4_bool_wtype
      [] w = uint64_wtype -> ARC4UIntN(64, uint64_wtype, None).value
      [] w = biguint_wtype -> ARC4UIntN(512, biguint_wtype, None).value
      [] w = bytes_wtype ->
            ARC4DynamicArray(arc4_byte_alias, None, Some(bytes_wtype), FALSE).value
      [] w = string_wtype -> arc4_string_wtype

\* a wtype that is mapped: a native one, or a tuple of mapped and ARC4 ones
RECURSIVE Mappable(_)
Mappable(w) ==
    \/ w \in NativeWithEquivalent
    \/ /\ w.cls = "WTuple"
       /\ \A i \in DOMAIN w.types : IsARC4Type(w.types[i]) \/ Mappable(w.types[i])

\* C16: avm_to_arc4_equivalent_type maps the five native types to their
\* ARC4 types and a tuple to the arc4.tuple of its elements in order, ARC4
\* elements kept and native ones mapped recursively; any other wtype
\* raises InternalError.
C16_CanonicalMapping ==
    call.fn = "avm_to_arc4_equivalent_type" =>
        /\ call.wtype \in NativeWithEquivalent =>
            call.result = Ok(EquivalentOfNative(call.wtype))
        /\ (call.wtype.cls = "WTuple" /\ Mappable(call.wtype)) =>
            /\ call.result.ok
            /\ call.result.value.cls = "ARC4Tuple"
            /\ Len(call.result.value.types) = Len(call.wtype.types)
            /\ \A i \in DOMAIN call.wtype.types :
                LET t == call.wtype.types[i]
                    r == call.result.value.types[i]
                IN IF IsARC4Type(t) THEN r = t
                   ELSE IF t \in NativeWithEquivalent THEN r = EquivalentOfNative(t)
                   ELSE r.cls = "ARC4Tuple" /\ Len(r.types) = Len(t.types)
        /\ ~Mappable(call.wtype) =>
            ~call.result.ok /\ call.result.error = "InternalError"

\* an ARC4 element kept, a native one mapped
C16_Witness ==
    /\ call.fn = "avm_to_arc4_equivalent_type"
    /\ call.wtype.cls = "WTuple"
    /\ call.wtype.types = <<uint64_wtype, arc4_bool_wtype>>
    /\ call.result.ok
    /\ call.result.value.name = "arc4.tuple<arc4.uint64,arc4.bool>"
    /\ call.result.value.types[2] = arc4_bool_wtype

(***************************************************************************)
(* Claims about the language server.                                       *)
(***************************************************************************)
IsLocated(l) == l.location # None /\ l.location[1].file # None

\* the entries of logs located in the file uri, in the order logged
LocatedIn(logs, uri) ==
    SelectSeq(logs, LAMBDA l : IsLocated(l) /\ l.location[1].file[1] = uri)

\* C17: after any sequence of open, change and save events the diagnostics
\* published for each document are exactly the located log entries of the
\* most recent compilation; none of an earlier compilation is published
\* again.
C17_PublishedAreLatestLocatedLogs ==
    \A uri \in DOMAIN published :
        LET entries == LocatedIn(run.logs, uri)
            shown == published[uri].diagnostics
        IN /\ Len(shown) = Len(entries)
           /\ \A i \in DOMAIN shown :
                /\ shown[i].message = entries[i].message
                /\ (shown[i].severity = "Error") = (entries[i].level = "error")
                /\ (shown[i].severity = "Warning") = (entries[i].level = "warning")

\* a document whose diagnostics of the run before are gone after a clean run
C17_Witness ==
    /\ "a.py" \in DOMAIN published
    /\ published["a.py"].diagnostics = <<>>
    /\ published["a.py"].version = Some(2)
    /\ "b.py" \in DOMAIN published
    /\ Len(published["b.py"].diagnostics) = 2
    /\ run.lowered

\* C18: when parsing logged an error the modules whose file has an
\* error-level log are pruned and the AWST build runs on the rest;
\* awst_to_teal runs only when no error is logged after the AWST build.
C18_PruneThenGateLowering ==
    run.transformed # None =>
        /\ \A m \in Files :
            m \in run.transformed[1] <=>
                ~\E i \in DOMAIN run.parse_logs :
                    /\ run.parse_logs[i].level = "error"
                    /\ IsLocated(run.parse_logs[i])
                    /\ run.parse_logs[i].location[1].file[1] = m
        /\ run.lowered =>
            \A i \in DOMAIN run.logs :
                run.logs[i].level = "error" => run.logs[i].message = "teal"
        /\ run.lowered <=>
            ~\E i \in DOMAIN (run.parse_logs \o run.awst_logs) :
                (run.parse_logs \o run.awst_logs)[i].level = "error"

\* parsing failed in one file, the AWST build ran on the other and logged an
\* error, and no code was generated
C18_Witness ==
    /\ run.transformed = Some({"b.py"})
    /\ Len(run.parse_logs) = 1
    /\ Len(run.awst_logs) = 1
    /\ run.awst_logs[1].level = "error"
    /\ run.awst_logs[1].location # None
    /\ ~run.lowered

\* C19: a log entry with no source location, or with a location that has no
\* file, is still published, at the start of a file (0:0 to 0:0).
C19_UnlocatedPublishedAtStartOfFile ==
    \A i \in DOMAIN run.logs :
        ~IsLocated(run.logs[i]) =>
            \E uri \in DOMAIN published :
                \E k \in DOMAIN published[uri].diagnostics :
                    LET d == published[uri].diagnostics[k]
                    IN /\ d.message = run.logs[i].message
                       /\ d.range = [start |-> [line |-> 0, character |-> 0],
                                     end |-> [line |-> 0, character |-> 0]]

(***************************************************************************)
(* Claims about the ARC4 encoding.                                         *)
(***************************************************************************)
\* bit i (from 0, the highest bit of the first byte first) of data
BitOf(data, i) == (data[i \div 8 + 1] \div 2^(7 - (i % 8))) % 2

\* C20: an array of n arc4.bool is packed MSB-first into ceil(n/8) bytes,
\* bit i set iff element i is true and the unused low bits zero, after a
\* 2-byte big-endian count for a dynamic array and nothing for a static one;
\* 12 true values in a static array give FF F0, the dynamic array
\* [true, false, true] gives 00 03 A0.
C20_BoolArraysBitPacked ==
    /\ call.fn = "bytes" =>
        LET n == Len(call.values)
            prefix == IF call.is_dynamic THEN 2 ELSE 0
            data == SubSeq(call.result, prefix + 1, Len(call.result))
        IN /\ Len(call.result) = prefix + (IF n % 8 = 0 THEN n \div 8 ELSE n \div 8 + 1)
           /\ call.is_dynamic => 256 * call.result[1] + call.result[2] = n
           /\ \A k \in DOMAIN call.result : call.result[k] \in 0..255
           /\ \A i \in 0..(n - 1) : (BitOf(data, i) = 1) <=> call.values[i + 1]
           /\ \A i \in n..(8 * Len(data) - 1) : BitOf(data, i) = 0
    /\ (call.fn = "bytes" /\ ~call.is_dynamic /\ call.values = [i \in 1..12 |-> TRUE]) =>
        call.result = <<255, 240>>
    /\ (call.fn = "bytes" /\ call.is_dynamic /\ call.values = <<TRUE, FALSE, TRUE>>) =>
        call.result = <<0, 3, 160>>
    /\ call.fn = "approval_program" =>
        /\ call.static_boolean_array = <<255, 240>>
        /\ call.dynamic_boolean_array = <<0, 3, 160>>
        /\ call.result = "True"

\* the example contract ran with both of its arrays as asserted
C20_Witness ==
    /\ call.fn = "approval_program"
    /\ call.asserts[5]
    /\ call.asserts[8]
    /\ Len(call.static_boolean_array) = 2
    /\ Len(call.dynamic_boolean_array) = 3

(***************************************************************************)
(* Claims about _lower_sub and the order of the passes.                    *)
(***************************************************************************)
\* the MIR blocks of a subroutine that open a TEAL block: the first, and
\* every one some branching op of the subroutine targets
Openers(mir_sub) ==
    {i \in DOMAIN mir_sub.blocks :
        \/ i = 1
        \/ \E b \in DOMAIN mir_sub.blocks : \E o \in DOMAIN mir_sub.blocks[b].ops :
            /\ mir_sub.blocks[b].ops[o].kind = "branch"
            /\ mir_sub.blocks[i].block_name \in Range(mir_sub.blocks[b].ops[o].targets)}

\* the k-th opener, and the last MIR block before the next opener
OpenerOf(mir_sub, k) ==
    CHOOSE i \in Openers(mir_sub) :
        Cardinality({j \in Openers(mir_sub) : j <= i}) = k

LastMergedInto(mir_sub, o) ==
    CHOOSE j \in o..Len(mir_sub.blocks) :
        /\ \A m \in (o + 1)..j : m \notin Openers(mir_sub)
        /\ j = Len(mir_sub.blocks) \/ (j + 1) \in Openers(mir_sub)

LoweredAsClaimed(mir_sub, teal_sub) ==
    /\ Len(teal_sub.blocks) = Cardinality(Openers(mir_sub))
    /\ \A k \in DOMAIN teal_sub.blocks :
        LET o == OpenerOf(mir_sub, k)
            last == LastMergedInto(mir_sub, o)
        IN /\ teal_sub.blocks[k].ops
                = Flatten([m \in 1..(last - o + 1) |->
                            Flatten([x \in DOMAIN mir_sub.blocks[o + m - 1].ops |->
                                        accept(mir_sub.blocks[o + m - 1].ops[x])])])
           /\ teal_sub.blocks[k].entry_stack_height
                = mir_sub.blocks[o].entry_stack_height
           /\ teal_sub.blocks[k].exit_stack_height
                = mir_sub.blocks[last].exit_stack_height
    /\ Flatten([k \in DOMAIN teal_sub.blocks |-> teal_sub.blocks[k].ops])
        = Flatten([m \in DOMAIN mir_sub.blocks |->
                    Flatten([x \in DOMAIN mir_sub.blocks[m].ops |->
                                accept(mir_sub.blocks[m].ops[x])])])

\* C23: _lower_sub opens a TEAL block for a MIR block exactly when it is the
\* first of the subroutine or a target of one of its branching ops; the ops
\* of every other MIR block go to the block opened last, so the TEAL ops in
\* order are the lowered MIR ops in order, and a TEAL block has the entry
\* height of its opener and the exit height of the last block merged in.
C23_BlocksOpenedAtFirstAndTargets ==
    pc = "optimize" =>
        /\ LoweredAsClaimed(program_mir.main, teal.main)
        /\ Len(teal.subroutines) = Len(program_mir.subroutines)
        /\ \A s \in DOMAIN teal.subroutines :
            LoweredAsClaimed(program_mir.subroutines[s], teal.subroutines[s])

\* three MIR blocks, the third a branch target, the second merged
C23_Witness ==
    /\ pc = "optimize"
    /\ Len(program_mir.main.blocks) = 3
    /\ Openers(program_mir.main) = {1, 3}
    /\ Len(teal.main.blocks) = 2
    /\ Len(teal.main.blocks[1].ops) = 2
    /\ teal.main.blocks[2].label = "m2"

PassesInOrder ==
    IF optimization_level > 0
    THEN <<"optimize_teal_program", "gather_program_constants", "combine_pushes">>
    ELSE <<"gather_program_constants">>

\* C24: the passes run in the order optimize_teal_program,
\* gather_program_constants, combine_pushes; gather_program_constants runs
\* at every optimization level, the other two exactly when the level is
\* greater than 0.
C24_PassOrderAndGating ==
    /\ \E n \in 0..Len(PassesInOrder) : passes = SubSeq(PassesInOrder, 1, n)
    /\ pc \in {"assert", "returned", "assertion_failed"} => passes = PassesInOrder
    /\ pc \in {"combine", "assert", "returned", "assertion_failed"} =>
        "gather_program_constants" \in Range(passes)

\* a compilation at level 0 that ran gather_program_constants alone
C24_Witness ==
    /\ pc = "returned"
    /\ optimization_level = 0
    /\ passes = <<"gather_program_constants">>
    /\ teal.main.blocks # <<>>

(***************************************************************************)
(* Claims about the builders, continued.                                   *)
(***************************************************************************)
\* a value operand converted to an ARC-4 target that is no transaction type
ConvertedToARC4 ==
    /\ call.fn = "_implicit_arc4_conversion"
    /\ call.operand.is_instance
    /\ call.target_type.cls # "TransactionRelatedType"
    /\ IsARC4Type(call.target_type.wtype[1])

\* C25: for an operand whose type differs from the ARC-4 target, an error
\* is logged and a dummy value of the target type returned, nothing raised,
\* when the operand is of an ARC-4 type, and otherwise when the target
\* cannot encode the operand's wtype, the ARC-4 test coming first; an
\* operand of the target type is returned as it is with no diagnostic.
C25_ErrorsGiveDummyValues ==
    ConvertedToARC4 =>
        LET operand_wtype == call.operand.pytype.wtype[1]
            target_wtype == call.target_type.wtype[1]
            encodable == \/ target_wtype.decode_type = Some(operand_wtype)
                         \/ operand_wtype \in target_wtype.other_encodeable_types
        IN /\ ~call.result.raised
           /\ call.operand.pytype = call.target_type =>
                /\ call.result.value = [from |-> "operand", pytype |-> call.target_type]
                /\ call.result.log = <<>>
           /\ (call.operand.pytype # call.target_type /\ IsARC4Type(operand_wtype)) =>
                /\ call.result.value = [from |-> "dummy_value", pytype |-> call.target_type]
                /\ call.result.log = <<"expected type">>
           /\ (call.operand.pytype # call.target_type /\ ~IsARC4Type(operand_wtype)
                    /\ ~encodable) =>
                /\ call.result.value = [from |-> "dummy_value", pytype |-> call.target_type]
                /\ call.result.log = <<"cannot encode">>
           /\ (call.operand.pytype # call.target_type /\ ~IsARC4Type(operand_wtype)
                    /\ encodable) =>
                /\ call.result.value.from = "type_builder_call"
                /\ call.result.log = <<>>

\* an ARC-4 operand of another type than the target, which the target could
\* not encode either
C25_Witness ==
    /\ ConvertedToARC4
    /\ call.operand.pytype = pytypes.ARC4UInt64Type
    /\ call.target_type = pytypes.ARC4StringType
    /\ call.result.value.from = "dummy_value"
    /\ log = <<"expected type">>

\* the other operand is biguint or uint64 once a literal is resolved by the
\* BigUInt converter (an int literal becomes a biguint constant)
OtherIsBigUIntOrUInt64 ==
    call.other.pytype \in {pytypes.IntLiteralType, pytypes.BigUIntType, pytypes.UInt64Type}

OperandsAsBuilt ==
    /\ ~call.result.raised
    /\ call.result.value.node = "BigUIntBinaryOperation"
    /\ IF call.reverse
       THEN call.result.value.right = "self" /\ call.result.value.left # "self"
       ELSE call.result.value.left = "self" /\ call.result.value.right # "self"

\* C26 as stated: binary_op returns NotImplemented exactly when the other
\* operand is neither biguint nor uint64; otherwise it builds a
\* BigUIntBinaryOperation, left = self and right = other, swapped for reverse.
C26_NotImplementedOrOperation ==
    call.fn = "binary_op" =>
        IF OtherIsBigUIntOrUInt64
        THEN OperandsAsBuilt
        ELSE ~call.result.raised /\ call.result.value.node = "NotImplemented"

\* C26 as amended: the operation is built when the operator is one BigUInt
\* has (/ standing for //); any other operator raises CodeError once the
\* operand is accepted.
C26_OperationForBigUIntOperators ==
    call.fn = "binary_op" =>
        IF ~OtherIsBigUIntOrUInt64
        THEN ~call.result.raised /\ call.result.value.node = "NotImplemented"
        ELSE IF call.op \in {"add", "sub", "mult", "div", "floor_div", "mod",
                             "bit_or", "bit_xor", "bit_and"}
        THEN OperandsAsBuilt
        ELSE call.result.raised /\ call.result.error = "CodeError"

\* a uint64 on the left of a biguint: the biguint builder called with reverse
C26_Witness ==
    /\ call.fn = "binary_op"
    /\ call.reverse
    /\ call.other.pytype = pytypes.UInt64Type
    /\ call.op = "sub"
    /\ call.result.value.left = "itob_as(UInt64Expression)"
    /\ call.result.value.right = "self"

(***************************************************************************)
(* Claims about the language server, continued.                            *)
(***************************************************************************)
\* C27: a uri that is a key of the server's diagnostics map stays one over
\* every refresh; in a refresh that logs nothing located in it, it is kept
\* with an empty list and published with that empty list.
C27_UrisKeptAndCleared ==
    [][\A uri \in DOMAIN diagnostics :
            /\ uri \in DOMAIN diagnostics'
            /\ uri \in DOMAIN published'
            /\ (\A i \in DOMAIN run'.logs :
                    IsLocated(run'.logs[i]) => run'.logs[i].location[1].file[1] # uri)
                => /\ diagnostics'[uri].diagnostics = <<>>
                   /\ published'[uri] = diagnostics'[uri]]_vars

\* b.py had a diagnostic once; the last run logged only about a.py
C27_Witness ==
    /\ "b.py" \in DOMAIN diagnostics
    /\ diagnostics["b.py"].diagnostics = <<>>
    /\ published["b.py"].diagnostics = <<>>
    /\ "a.py" \in DOMAIN diagnostics
    /\ Len(diagnostics["a.py"].diagnostics) = 1
    /\ Len(run.logs) = 1

(***************************************************************************)
(* Claims about ARC4 tuple indexing and signatures, continued.             *)
(***************************************************************************)
\* C29: an int literal index i on an ARC4 tuple of n items is accepted
\* exactly when -n <= i < n; a negative one selects the item counted from
\* the end, and the TupleItemExpression carries i as written, not n + i.
C29_NegativeIndexKept ==
    (call.fn = "index" /\ call.index.literal
            /\ call.index.pytype = pytypes.IntLiteralType) =>
        LET n == Len(call.self_pytype.items)
            i == call.index.value
        IN /\ ~call.result.raised <=> (0 - n <= i /\ i < n)
           /\ ~call.result.raised =>
                /\ call.result.value.expr.node = "TupleItemExpression"
                /\ call.result.value.expr.index = i
                /\ i < 0 => call.result.value.pytype = call.self_pytype.items[n + i + 1]
                /\ i >= 0 => call.result.value.pytype = call.self_pytype.items[i + 1]

\* the last of two items taken with index -1
C29_Witness ==
    /\ call.fn = "index"
    /\ call.self_pytype.items = <<pytypes.ARC4BoolType, pytypes.ARC4StringType>>
    /\ call.index.literal
    /\ call.index.value = 0 - 1
    /\ ~call.result.raised
    /\ call.result.value.pytype = pytypes.ARC4StringType
    /\ call.result.value.expr.index = 0 - 1

\* C30: every arg-list and every return part _split_signature returns has
\* balanced parentheses, and a signature whose parentheses are not balanced
\* (an unclosed "(" or a surplus ")") raises CodeError.
C30_ReturnedPartsBalanced ==
    call.fn = "_split_signature" =>
        /\ ~call.result.raised =>
            /\ call.result.value.args # None => Balanced(call.result.value.args[1])
            /\ call.result.value.returns # None => Balanced(call.result.value.returns[1])
        /\ ~Balanced(call.signature) =>
            call.result.raised /\ call.result.error = "CodeError"

\* the count errors in a log
CountErrors(logged) ==
    {i \in DOMAIN logged :
        \E n, m \in 0..(MaxAbiArgs + 1) :
            logged[i] \in {"expected " \o ToString(n) \o " ABI argument, got " \o ToString(m),
                           "expected " \o ToString(n) \o " ABI arguments, got " \o ToString(m)}}

\* C28: convert_args with M call-site arguments for N declared types,
\* M # N, logs one error 'expected N ABI argument(s), got M', does not
\* raise, and returns the first min(N, M) arguments, the i-th converted to
\* the i-th declared type; with M = N it logs no count error and returns N
\* arguments.
C28_CountMismatchLoggedOnce ==
    call.fn = "convert_args" =>
        LET N == Len(call.self_arg_types)
            M == Len(call.native_args)
            declared(i) ==
                IF call.expect_itxn_args
                        /\ call.self_arg_types[i].cls = "TransactionRelatedType"
                THEN TransactionRelatedType("InnerTransactionFieldset",
                                            call.self_arg_types[i].transaction_type)
                ELSE call.self_arg_types[i]
        IN /\ ~call.result.raised
           /\ Len(call.result.value) = (IF N < M THEN N ELSE M)
           /\ \A i \in DOMAIN call.result.value :
                call.result.value[i]
                    = _implicit_arc4_conversion(call.native_args[i], declared(i)).value
           /\ M = N => CountErrors(call.result.log) = {}
           /\ M # N =>
                /\ Cardinality(CountErrors(call.result.log)) = 1
                /\ call.result.log[1]
                    = "expected " \o ToString(N)
                        \o (IF N = 1 THEN " ABI argument" ELSE " ABI arguments")
                        \o ", got " \o ToString(M)
           /\ log = call.result.log

\* two arguments given for one declared type
C28_Witness ==
    /\ call.fn = "convert_args"
    /\ Len(call.self_arg_types) = 1
    /\ Len(call.native_args) = 2
    /\ ~call.result.raised
    /\ Len(call.result.value) = 1
    /\ log = <<"expected 1 ABI argument, got 2">>

(***************************************************************************)
(* Claims about valid_address.                                             *)
(***************************************************************************)
\* the value of a base32 character, -1 for any other character
Base32Value(c) ==
    LET letters == <<"A", "B", "C", "D", "E", "F", "G", "H", "I", "J", "K", "L", "M",
                     "N", "O", "P", "Q", "R", "S", "T", "U", "V", "W", "X", "Y", "Z">>
        digits == <<"2", "3", "4", "5", "6", "7">>
    IN IF \E i \in 1..26 : letters[i] = c
       THEN (CHOOSE i \in 1..26 : letters[i] = c) - 1
       ELSE IF \E i \in 1..6 : digits[i] = c
       THEN 25 + (CHOOSE i \in 1..6 : digits[i] = c)
       ELSE -1

\* the bits that the characters of a base32 string stand for, five each
Base32Bits(s) ==
    Flatten([i \in 1..Len(s) |->
                [j \in 1..5 |-> (Base32Value(s[i]) \div 2^(5 - j)) % 2]])

\* the k-th byte held in a sequence of bits
ByteOfBits(bits, k) ==
    128 * bits[8 * k - 7] + 64 * bits[8 * k - 6] + 32 * bits[8 * k - 5]
    + 16 * bits[8 * k - 4] + 8 * bits[8 * k - 3] + 4 * bits[8 * k - 2]
    + 2 * bits[8 * k - 1] + bits[8 * k]

\* a string of 58 base32 characters, which with its padding decodes to 36
\* bytes, whose last 4 bytes are the last 4 bytes of the hash of the first 32
AddressWithCheckSum(s) ==
    /\ Len(s) = 58
    /\ \A i \in 1..58 : Base32Value(s[i]) >= 0
    /\ LET bits == Base32Bits(s)
           bytes == [k \in 1..36 |-> ByteOfBits(bits, k)]
           hash == sha512_256_hash(SubSeq(bytes, 1, 32))
       IN \A k \in 1..4 : bytes[32 + k] = hash[28 + k]

\* C22: valid_address answers true exactly for a string of 58 characters
\* that, padded with "=", decodes as base32 to 36 bytes whose last 4 bytes are
\* the last 4 bytes of the SHA-512/256 hash of the first 32; for any other
\* string it answers false.
C22_ValidAddressIffCheckSum ==
    call.fn = "valid_address" =>
        /\ call.result \in BOOLEAN
        /\ call.result <=> AddressWithCheckSum(call.address)

\* the address of the zero public key is accepted, and so is the address
\* whose last character differs in the two bits that are not decoded
C22_Witness ==
    /\ call.fn = "valid_address"
    /\ call.result
    /\ SubSeq(call.address, 1, 52) = [i \in 1..52 |-> "A"]
    /\ SubSeq(call.address, 53, 58) = <<"Y", "5", "H", "F", "K", "Q">>


(***************************************************************************)
(* Claims about ImmutableArray[UInt64].                                    *)
(***************************************************************************)
\* C21: from the empty array and after any appends, pops and replaces,
\* append(v) gives an array one longer that ends with v, pop gives an array one
\* shorter without the last element, replace(i, v) gives an array of the same
\* length with v at i, and every other element keeps its value and position;
\* test_uint64_array passes its asserts and ends with length 15, arr[2] = 23,
\* arr[-1] = 44 and arr[0] = 42.
C21_ArrayOperations ==
    /\ call.fn = "ImmutableArray" =>
        LET old == call.before
            new == call.arr
        IN /\ call.op = "new" => Len(new) = 0
           /\ call.op = "append" =>
                /\ Len(new) = Len(old) + 1
                /\ new[Len(new)] = call.args[1]
                /\ \A i \in 1..Len(old) : new[i] = old[i]
           /\ call.op = "pop" =>
                /\ Len(new) = Len(old) - 1
                /\ \A i \in 1..Len(new) : new[i] = old[i]
           /\ call.op = "replace" =>
                /\ Len(new) = Len(old)
                /\ new[call.args[1] + 1] = call.args[2]
                /\ \A i \in 1..Len(old) : i # call.args[1] + 1 => new[i] = old[i]
    /\ call.fn = "test_uint64_array" =>
        /\ call.result.failed_assert = 0
        /\ call.result.a # None
        /\ LET arr == call.result.a[1]
           IN /\ Len(arr) = 15
              /\ arr[3] = 23
              /\ arr[15] = 44
              /\ arr[1] = 42

\* the method ran to its end and stored the array it built
C21_Witness ==
    /\ call.fn = "test_uint64_array"
    /\ call.result.a = Some(<<42, 0, 23, 2, 0, 1, 2, 3, 4, 5, 6, 7, 8, 9, 44>>)

=============================================================================
